---- MODULE Spec2Model ----
(***************************************************************************)
(* Model of the content analysis core of noc_kbu                           *)
(* (src/noc_kbu/agents/content_analyzer.py): the similarity engine          *)
(* (calculate_content_similarity) and the cluster builder                  *)
(* (identify_duplicate_clusters).                                          *)
(*                                                                         *)
(* Numbers.  Cosine similarities are kept in hundredths (100 = 1.0) and    *)
(* overall similarities, thresholds and means in thousandths (850 = 0.85), *)
(* so that 0.3*t + 0.7*c is the integer 3*t + 7*c.                         *)
(***************************************************************************)
EXTENDS Integers, Sequences, FiniteSets, TLC

VARIABLES articles, similarity_threshold, similarity_results, clusters, pc

\* The quality assessor and the orchestrator: the analyzer's quality
\* parameters, the wall clock (in days), the article handed to the assessor
\* with the metrics of two successive calls, and the compiled result.
VARIABLES config, now, article, first_metrics, second_metrics, analysis_result

qvars == <<config, now, article, first_metrics, second_metrics, analysis_result>>

\* The workflow around the analyzer: the analysis file on disk, the process
\* environment with the options given to a constructor and the settings
\* built from them, the review manager's original and approved articles,
\* the uploader's run, and one REST request with its retries.
VARIABLES analysis_file, environ, options, settings, original_articles,
          approved_articles, upload, request

wvars == <<analysis_file, environ, options, settings, original_articles,
           approved_articles, upload, request>>

vars == <<articles, similarity_threshold, similarity_results, clusters, pc,
          config, now, article, first_metrics, second_metrics, analysis_result,
          analysis_file, environ, options, settings, original_articles,
          approved_articles, upload, request>>

(***************************************************************************)
(* Bounds and inputs                                                       *)
(***************************************************************************)
\* largest batch handed to the analyzer
MaxArticles == 4

\* identifiers of the articles that carry one, by input position
IdPool == <<"a1", "a2", "a3", "a4", "a5", "a6">>

\* article.get('id', '') of an article without an id
MissingId == ""

\* The (title, body) contents an input article is drawn from.  Titles are
\* either empty or the single term "vpn"; bodies are two related texts, or
\* empty.
Contents ==
    { [title |-> "vpn", body |-> "b1"],
      [title |-> "vpn", body |-> "b2"],
      [title |-> "vpn", body |-> ""],
      [title |-> "",    body |-> "b1"] }

\* similarity thresholds the analyzer is constructed with (0.7 and 0.85)
Thresholds == {700, 850}

Article(i, hasId, content) ==
    [id    |-> IF hasId THEN IdPool[i] ELSE MissingId,
     title |-> content.title,
     body  |-> content.body]

\* a batch of n articles: for every position, whether the article carries
\* an id, and its content
BatchChoices(n) == [1..n -> BOOLEAN \X Contents]

Batch(n, f) == [i \in 1..n |-> Article(i, f[i][1], f[i][2])]

(***************************************************************************)
(* calculate_content_similarity                                            *)
(***************************************************************************)
\* variant: the vectorizer is fitted on an empty batch too
EmptyVocabularyAnyBatch(arts) ==
    \A i \in 1..Len(arts) : arts[i].title = ""

\* TfidfVectorizer(stop_words='english').fit_transform raises ValueError
\* ("empty vocabulary") when no title of a non-empty batch holds a term.
EmptyVocabulary(arts) ==
    /\ Len(arts) > 0
    /\ \A i \in 1..Len(arts) : arts[i].title = ""

\* cosine of the TF-IDF vectors of two titles: a title without terms is the
\* zero vector, two equal one-term titles have the same unit vector.
TitleCos(t1, t2) ==
    IF t1 # "" /\ t1 = t2 THEN 100 ELSE 0

\* cosine of the sentence embeddings of two normalized bodies.  The
\* embedding of a text is a dense vector; the cosine of two such vectors
\* lies in [-1, 1].
BodyCos(b1, b2) ==
    IF b1 = b2 THEN 100
    ELSE IF {b1, b2} = {"b1", "b2"} THEN 85
    ELSE IF {b1, b2} = {"b1", ""} THEN -10
    ELSE 20

title_similarities(arts, i, j) ==
    IF Len(arts) > 0 THEN TitleCos(arts[i].title, arts[j].title) ELSE 0

content_similarities(arts, i, j) ==
    IF \E k \in 1..Len(arts) : arts[k].body # ""
    THEN BodyCos(arts[i].body, arts[j].body)
    ELSE 0

\* overall_sim = (title_sim * 0.3) + (content_sim * 0.7), in thousandths
OverallSim(title_sim, content_sim) == (title_sim * 3) + (content_sim * 7)

\* variant: the boundary is left out of the comparison
IsDuplicateStrict(overall_sim, threshold) == overall_sim > threshold

IsDuplicate(overall_sim, threshold) == overall_sim >= threshold

SimilarityResult(arts, i, j, threshold) ==
    LET title_sim   == title_similarities(arts, i, j)
        content_sim == content_similarities(arts, i, j)
        overall_sim == OverallSim(title_sim, content_sim)
    IN  [article_id_1       |-> arts[i].id,
         article_id_2       |-> arts[j].id,
         title_similarity   |-> title_sim,
         content_similarity |-> content_sim,
         overall_similarity |-> overall_sim,
         is_duplicate       |-> IsDuplicate(overall_sim, threshold)]

\* for i in range(n): for j in range(i + 1, n)
RECURSIVE PairLoop(_, _, _)
PairLoop(i, j, n) ==
    IF i > n THEN <<>>
    ELSE IF j > n THEN PairLoop(i + 1, i + 2, n)
    ELSE <<<<i, j>>>> \o PairLoop(i, j + 1, n)

calculate_content_similarity(arts, threshold) ==
    LET ps == PairLoop(1, 2, Len(arts))
    IN  [k \in 1..Len(ps) |-> SimilarityResult(arts, ps[k][1], ps[k][2], threshold)]

(***************************************************************************)
(* identify_duplicate_clusters                                             *)
(***************************************************************************)
\* duplicates = [r for r in similarity_results if r.is_duplicate]
IsFlagged(r) == r.is_duplicate

\* variant: every compared pair is taken for a duplicate pair
DuplicatesUnflagged(results) == results

Duplicates(results) == SelectSeq(results, IsFlagged)

\* article_connections is a dict: its keys in insertion order, and the
\* adjacency list of every key.
EmptyConnections == [keys |-> <<>>, adj |-> <<>>]

HasKey(conn, article_id) == \E k \in 1..Len(conn.keys) : conn.keys[k] = article_id

\* if article_id not in article_connections: article_connections[article_id] = []
EnsureKey(conn, article_id) ==
    IF HasKey(conn, article_id) THEN conn
    ELSE [keys |-> Append(conn.keys, article_id),
          adj  |-> Append(conn.adj, <<>>)]

KeyIndex(conn, article_id) ==
    CHOOSE k \in 1..Len(conn.keys) : conn.keys[k] = article_id

\* article_connections[from_id].append((to_id, score))
AppendEdge(conn, from_id, to_id, score) ==
    [conn EXCEPT !.adj[KeyIndex(conn, from_id)] = Append(@, <<to_id, score>>)]

\* article_connections.get(current, [])
Connections(conn, article_id) ==
    IF HasKey(conn, article_id) THEN conn.adj[KeyIndex(conn, article_id)] ELSE <<>>

\* variant: the edge is recorded at its first endpoint only
AddConnectionsOneWay(conn, dup) ==
    LET c1 == EnsureKey(conn, dup.article_id_1)
        c2 == EnsureKey(c1, dup.article_id_2)
    IN  AppendEdge(c2, dup.article_id_1, dup.article_id_2, dup.overall_similarity)

\* one iteration of "for dup in duplicates" of the graph construction
AddConnections(conn, dup) ==
    LET c1 == EnsureKey(conn, dup.article_id_1)
        c2 == EnsureKey(c1, dup.article_id_2)
        c3 == AppendEdge(c2, dup.article_id_1, dup.article_id_2, dup.overall_similarity)
    IN  AppendEdge(c3, dup.article_id_2, dup.article_id_1, dup.overall_similarity)

RECURSIVE BuildConnections(_, _, _)
BuildConnections(duplicates, k, conn) ==
    IF k > Len(duplicates) THEN conn
    ELSE BuildConnections(duplicates, k + 1, AddConnections(conn, duplicates[k]))

\* for connected_id, _ in article_connections.get(current, []):
\*     if connected_id not in visited: visited.add(...); queue.append(...)
RECURSIVE VisitConnections(_, _, _, _)
VisitConnections(adjacent, k, queue, visited) ==
    IF k > Len(adjacent) THEN [queue |-> queue, visited |-> visited]
    ELSE LET connected_id == adjacent[k][1]
         IN  IF connected_id \notin visited
             THEN VisitConnections(adjacent, k + 1,
                                   Append(queue, connected_id),
                                   visited \cup {connected_id})
             ELSE VisitConnections(adjacent, k + 1, queue, visited)

\* variant: a node is marked visited when it leaves the queue instead of
\* when it enters it
RECURSIVE EnqueueUnmarked(_, _, _, _)
EnqueueUnmarked(adjacent, k, queue, visited) ==
    IF k > Len(adjacent) THEN queue
    ELSE IF adjacent[k][1] \notin visited
         THEN EnqueueUnmarked(adjacent, k + 1, Append(queue, adjacent[k][1]), visited)
         ELSE EnqueueUnmarked(adjacent, k + 1, queue, visited)

RECURSIVE BFSMarkOnPop(_, _, _, _)
BFSMarkOnPop(conn, queue, visited, cluster_articles) ==
    IF queue = <<>> THEN [cluster_articles |-> cluster_articles, visited |-> visited]
    ELSE LET current == Head(queue)
             marked  == visited \cup {current}
         IN  BFSMarkOnPop(conn,
                          EnqueueUnmarked(Connections(conn, current), 1,
                                          Tail(queue), marked),
                          marked, Append(cluster_articles, current))

\* while queue: current = queue.pop(0); cluster_articles.append(current); ...
RECURSIVE BFS(_, _, _, _)
BFS(conn, queue, visited, cluster_articles) ==
    IF queue = <<>> THEN [cluster_articles |-> cluster_articles, visited |-> visited]
    ELSE LET current == Head(queue)
             step    == VisitConnections(Connections(conn, current), 1,
                                         Tail(queue), visited)
         IN  BFS(conn, step.queue, step.visited, Append(cluster_articles, current))

\* variant: a component of one article is kept as a cluster
IsClusterOrSingle(cluster_articles) == Len(cluster_articles) >= 1

\* if len(cluster_articles) > 1
IsCluster(cluster_articles) == Len(cluster_articles) > 1

\* variant: the last article visited is taken as the primary
PrimaryIdLast(cluster_articles) == cluster_articles[Len(cluster_articles)]

\* primary_id = cluster_articles[0]
PrimaryId(cluster_articles) == cluster_articles[1]

\* duplicate_ids = cluster_articles[1:]
DuplicateIds(cluster_articles) == Tail(cluster_articles)

InSeq(x, seq) == \E k \in 1..Len(seq) : seq[k] = x

\* variant: the scores of all flagged pairs, whatever their cluster
RECURSIVE ClusterScoresUnfiltered(_, _, _)
ClusterScoresUnfiltered(duplicates, k, cluster_articles) ==
    IF k > Len(duplicates) THEN <<>>
    ELSE <<duplicates[k].overall_similarity>>
             \o ClusterScoresUnfiltered(duplicates, k + 1, cluster_articles)

\* the scores of the flagged pairs with both ends in cluster_articles
RECURSIVE ClusterScores(_, _, _)
ClusterScores(duplicates, k, cluster_articles) ==
    IF k > Len(duplicates) THEN <<>>
    ELSE LET dup == duplicates[k]
             rest == ClusterScores(duplicates, k + 1, cluster_articles)
         IN  IF /\ InSeq(dup.article_id_1, cluster_articles)
                /\ InSeq(dup.article_id_2, cluster_articles)
             THEN <<dup.overall_similarity>> \o rest
             ELSE rest

RECURSIVE SumSeq(_)
SumSeq(seq) == IF seq = <<>> THEN 0 ELSE Head(seq) + SumSeq(Tail(seq))

\* avg_similarity >= cutoff, where
\* avg_similarity = np.mean(cluster_scores) if cluster_scores else 0.0
AvgAtLeast(cluster_scores, cutoff) ==
    IF cluster_scores = <<>> THEN 0 >= cutoff
    ELSE SumSeq(cluster_scores) >= cutoff * Len(cluster_scores)

KeepPrimaryCutoff == 950
MergeCutoff == 850

RecommendedAction(cluster_scores) ==
    IF AvgAtLeast(cluster_scores, KeepPrimaryCutoff) THEN "keep_primary"
    ELSE IF AvgAtLeast(cluster_scores, MergeCutoff) THEN "merge"
    ELSE "manual_review"

\* variant: the numbering starts at zero
ClusterIdFromZero(found) == "cluster_" \o ToString(Len(found))

\* cluster_id = f"cluster_{len(clusters) + 1}"
ClusterId(found) == "cluster_" \o ToString(Len(found) + 1)

DuplicateCluster(found, duplicates, cluster_articles) ==
    LET cluster_scores == ClusterScores(duplicates, 1, cluster_articles)
    IN  [cluster_id            |-> ClusterId(found),
         primary_article_id    |-> PrimaryId(cluster_articles),
         duplicate_article_ids |-> DuplicateIds(cluster_articles),
         similarity_scores     |-> cluster_scores,
         recommended_action    |-> RecommendedAction(cluster_scores)]

\* for article_id in article_connections: if article_id in visited: continue ...
RECURSIVE ComponentLoop(_, _, _, _, _)
ComponentLoop(conn, duplicates, k, visited, found) ==
    IF k > Len(conn.keys) THEN found
    ELSE LET article_id == conn.keys[k]
         IN  IF article_id \in visited
             THEN ComponentLoop(conn, duplicates, k + 1, visited, found)
             ELSE LET bfs == BFS(conn, <<article_id>>, visited \cup {article_id}, <<>>)
                  IN  ComponentLoop(conn, duplicates, k + 1, bfs.visited,
                          IF IsCluster(bfs.cluster_articles)
                          THEN Append(found,
                                      DuplicateCluster(found, duplicates,
                                                       bfs.cluster_articles))
                          ELSE found)

identify_duplicate_clusters(results) ==
    LET duplicates == Duplicates(results)
    IN  IF duplicates = <<>> THEN <<>>
        ELSE ComponentLoop(BuildConnections(duplicates, 1, EmptyConnections),
                           duplicates, 1, {}, <<>>)

(***************************************************************************)
(* extract_clean_text                                                      *)
(*                                                                         *)
(* A body is rich text: a sequence of segments.  The normalized text is    *)
(* kept as what the assessor measures of it: its words, its non-blank      *)
(* '.'-separated fragments, its characters, and whether it holds the       *)
(* pattern <...> or the marker TODO/FIXME.                                 *)
(***************************************************************************)
\* running text: survives normalization
Text(words, sentences, chars, marker) ==
    [kind |-> "text", words |-> words, sentences |-> sentences,
     chars |-> chars, tag |-> FALSE, marker |-> marker]

\* a <script> or <style> block (here with a TODO inside): decomposed
ScriptBlock ==
    [kind |-> "script", words |-> 3, sentences |-> 1,
     chars |-> 40, tag |-> TRUE, marker |-> TRUE]

\* an escaped tag such as &lt;b&gt;: converted to the literal text <b>
EscapedTag ==
    [kind |-> "text", words |-> 1, sentences |-> 1,
     chars |-> 3, tag |-> TRUE, marker |-> FALSE]

\* the rich text behind every body of the model
Markup(body) ==
    CASE body = ""            -> <<>>
      [] body = "b1"          -> <<Text(60, 4, 400, FALSE)>>
      [] body = "b2"          -> <<Text(100, 1, 600, FALSE)>>
      [] body = "long"        -> <<Text(90, 3, 600, FALSE)>>
      [] body = "short"       -> <<Text(5, 1, 30, FALSE)>>
      [] body = "brief"       -> <<Text(18, 1, 120, FALSE)>>
      [] body = "medium"      -> <<Text(45, 3, 250, FALSE)>>
      [] body = "dots"        -> <<Text(1, 0, 3, FALSE)>>
      [] body = "todo"        -> <<Text(60, 4, 400, TRUE)>>
      [] body = "script_todo" -> <<ScriptBlock, Text(60, 4, 400, FALSE)>>
      [] body = "escaped"     -> <<Text(59, 3, 396, FALSE), EscapedTag>>
      [] body = "todo_escaped" -> <<Text(59, 3, 396, TRUE), EscapedTag>>

EmptyText ==
    [words |-> 0, sentences |-> 0, length |-> 0, has_tag |-> FALSE, has_marker |-> FALSE]

\* for script in soup(["script", "style"]): script.decompose(), then the
\* conversion of what is left to text
RECURSIVE CleanSegments(_, _)
CleanSegments(segments, k) ==
    IF k > Len(segments) THEN EmptyText
    ELSE LET rest == CleanSegments(segments, k + 1)
             seg  == segments[k]
         IN  IF seg.kind = "script" THEN rest
             ELSE [words      |-> seg.words + rest.words,
                   sentences  |-> seg.sentences + rest.sentences,
                   length     |-> seg.chars + rest.length,
                   has_tag    |-> seg.tag \/ rest.has_tag,
                   has_marker |-> seg.marker \/ rest.has_marker]

extract_clean_text(body) ==
    IF body = "" THEN EmptyText ELSE CleanSegments(Markup(body), 1)

(***************************************************************************)
(* assess_content_quality                                                  *)
(*                                                                         *)
(* Component scores are in thousandths (1000 = 1.0), the overall score and *)
(* the quality threshold in ten-thousandths (7000 = 0.7), so that          *)
(* 0.2*r + 0.3*c + 0.2*f + 0.3*t is the integer 2*r + 3*c + 2*f + 3*t.     *)
(* Quotients are rounded down to the thousandth.                           *)
(***************************************************************************)
Max(a, b) == IF a >= b THEN a ELSE b

Min(a, b) == IF a <= b THEN a ELSE b

\* variant: the distance from 15 words counts on both sides
ReadabilitySymmetric(text) ==
    IF text.sentences > 0
    THEN LET excess == text.words - 15 * text.sentences
             dist   == IF excess >= 0 THEN excess ELSE 0 - excess
         IN  Max(0, Min(1000, 1000 - ((1000 * dist) \div (30 * text.sentences))))
    ELSE 0

\* readability = max(0, min(1, 1 - (avg_words_per_sentence - 15) / 30))
Readability(text) ==
    IF text.sentences > 0
    THEN Max(0, Min(1000,
             1000 - ((1000 * (text.words - 15 * text.sentences))
                         \div (30 * text.sentences))))
    ELSE 0

ReadabilityIssues(text) ==
    IF text.sentences > 0 THEN <<>> ELSE <<"No readable sentences found">>

\* variant: the test against 200 characters comes first
CompletenessBriefFirst(text, min_content_length) ==
    IF text.length >= 200 THEN 1000
    ELSE IF text.length < min_content_length THEN 0
    ELSE 500

Completeness(text, min_content_length) ==
    IF text.length < min_content_length THEN 0
    ELSE IF text.length < 200 THEN 500
    ELSE 1000

CompletenessIssues(text, min_content_length) ==
    IF text.length < min_content_length THEN <<"Content too short">>
    ELSE IF text.length < 200 THEN <<"Content may be too brief">>
    ELSE <<>>

\* if updated_at: neither None (or absent) nor 0
HasTimestamp(updated_at) == updated_at.kind \notin {"none", "zero"}

\* datetime.fromtimestamp raises TypeError for a string and ValueError for
\* a year beyond 9999 (a timestamp in milliseconds): both are caught
FromTimestampCaught(updated_at) == updated_at.kind \in {"text", "millis"}

\* datetime.fromtimestamp raises OverflowError or OSError for a number
\* beyond the platform's time_t or localtime: neither is caught
FromTimestampUncaught(updated_at) == updated_at.kind = "huge"

\* days_old = (datetime.now() - last_update).days
DaysOld(updated_at, today) == today - updated_at.day

\* freshness = max(0, 1 - (days_old / self.max_content_age_days))
Freshness(updated_at, today, max_content_age_days) ==
    IF HasTimestamp(updated_at) /\ ~FromTimestampCaught(updated_at)
    THEN Max(0, 1000 - ((1000 * DaysOld(updated_at, today)) \div max_content_age_days))
    ELSE 500

FreshnessIssues(updated_at, today, max_content_age_days) ==
    IF ~HasTimestamp(updated_at) THEN <<"No update timestamp">>
    ELSE IF FromTimestampCaught(updated_at) THEN <<"Invalid update timestamp">>
    ELSE IF DaysOld(updated_at, today) > max_content_age_days
         THEN <<"Content may be outdated">>
         ELSE <<>>

\* title.strip()
StripTitle(title) == IF title = "   " THEN "" ELSE title

TagDeduction == 200
MarkerDeduction == 300
TitleDeduction == 500

\* variant: only the first applicable deduction is made
TechnicalAccuracyExclusive(text, title) ==
    Max(0, 1000 - (IF text.has_tag THEN TagDeduction
                   ELSE IF text.has_marker THEN MarkerDeduction
                   ELSE IF StripTitle(title) = "" THEN TitleDeduction
                   ELSE 0))

TechnicalAccuracy(text, title) ==
    Max(0, 1000 - (IF text.has_tag THEN TagDeduction ELSE 0)
                - (IF text.has_marker THEN MarkerDeduction ELSE 0)
                - (IF StripTitle(title) = "" THEN TitleDeduction ELSE 0))

TechnicalIssues(text, title) ==
    (IF text.has_tag THEN <<"Contains unprocessed HTML">> ELSE <<>>)
        \o (IF text.has_marker THEN <<"Contains TODO/FIXME markers">> ELSE <<>>)
        \o (IF StripTitle(title) = "" THEN <<"Missing or empty title">> ELSE <<>>)

\* overall = readability*0.2 + completeness*0.3 + freshness*0.2 + technical*0.3
OverallQuality(readability, completeness, freshness, technical_accuracy) ==
    (readability * 2) + (completeness * 3) + (freshness * 2) + (technical_accuracy * 3)

\* the call raises instead of returning
AssessRaises(art) ==
    HasTimestamp(art.updated_at) /\ FromTimestampUncaught(art.updated_at)

assess_content_quality(art, cfg, today) ==
    LET clean_text   == extract_clean_text(art.body)
        readability  == Readability(clean_text)
        completeness == Completeness(clean_text, cfg.min_content_length)
        freshness    == Freshness(art.updated_at, today, cfg.max_content_age_days)
        technical    == TechnicalAccuracy(clean_text, art.title)
    IN  [readability_score        |-> readability,
         completeness_score       |-> completeness,
         freshness_score          |-> freshness,
         technical_accuracy_score |-> technical,
         overall_quality_score    |->
             OverallQuality(readability, completeness, freshness, technical),
         issues |-> ReadabilityIssues(clean_text)
                        \o CompletenessIssues(clean_text, cfg.min_content_length)
                        \o FreshnessIssues(art.updated_at, today,
                                           cfg.max_content_age_days)
                        \o TechnicalIssues(clean_text, art.title)]

(***************************************************************************)
(* analyze_articles: the quality loop and the compiled result              *)
(***************************************************************************)
\* variant: the boundary is left out of the comparison
PassesThresholdStrict(overall, quality_threshold) == overall > quality_threshold

\* qa.overall_quality_score >= self.quality_threshold
PassesThreshold(overall, quality_threshold) == overall >= quality_threshold

\* quality_assessments[article_id] = ...: a dict keeps the position of a key
\* it already holds and replaces the value
RECURSIVE SetItem(_, _, _, _)
SetItem(assessments, k, article_id, metrics) ==
    IF k > Len(assessments)
    THEN Append(assessments, [article_id |-> article_id, metrics |-> metrics])
    ELSE IF assessments[k].article_id = article_id
         THEN [assessments EXCEPT ![k].metrics = metrics]
         ELSE SetItem(assessments, k + 1, article_id, metrics)

\* variant: every article is assessed, whatever its id
RECURSIVE QualityLoopUnguarded(_, _, _, _)
QualityLoopUnguarded(arts, k, cfg, today) ==
    IF k = 0 THEN <<>>
    ELSE SetItem(QualityLoopUnguarded(arts, k - 1, cfg, today), 1, arts[k].id,
                 assess_content_quality(arts[k], cfg, today))

\* for article in articles: if article_id: quality_assessments[article_id] = ...
\* (the assessments of the first k articles)
RECURSIVE QualityLoop(_, _, _, _)
QualityLoop(arts, k, cfg, today) ==
    IF k = 0 THEN <<>>
    ELSE LET before == QualityLoop(arts, k - 1, cfg, today)
         IN  IF arts[k].id # ""
             THEN SetItem(before, 1, arts[k].id,
                          assess_content_quality(arts[k], cfg, today))
             ELSE before

\* the loop reaches an article whose assessment raises
QualityLoopRaises(arts) ==
    \E k \in 1..Len(arts) : arts[k].id # "" /\ AssessRaises(arts[k])

\* np.mean(values) if values else 0.0, rounded down to the unit
MeanOrZero(values) ==
    IF values # <<>> THEN SumSeq(values) \div Len(values) ELSE 0

CompiledCluster(c) ==
    [cluster_id            |-> c.cluster_id,
     primary_article_id    |-> c.primary_article_id,
     duplicate_article_ids |-> c.duplicate_article_ids,
     avg_similarity        |-> MeanOrZero(c.similarity_scores),
     recommended_action    |-> c.recommended_action]

CompiledAssessment(entry, quality_threshold) ==
    [article_id               |-> entry.article_id,
     readability_score        |-> entry.metrics.readability_score,
     completeness_score       |-> entry.metrics.completeness_score,
     freshness_score          |-> entry.metrics.freshness_score,
     technical_accuracy_score |-> entry.metrics.technical_accuracy_score,
     overall_quality_score    |-> entry.metrics.overall_quality_score,
     issues                   |-> entry.metrics.issues,
     passes_threshold         |->
         PassesThreshold(entry.metrics.overall_quality_score, quality_threshold)]

\* variant: every compared pair counts as a duplicate
SummaryOfAllPairs(results, found, assessments, quality_threshold) ==
    LET quality_scores ==
            [k \in 1..Len(assessments) |-> assessments[k].metrics.overall_quality_score]
    IN  [total_duplicates   |-> Len(results),
         duplicate_clusters |-> Len(found),
         avg_quality_score  |-> MeanOrZero(quality_scores),
         articles_passing_quality |->
             Cardinality({k \in 1..Len(quality_scores) :
                              quality_scores[k] >= quality_threshold}),
         articles_with_issues |->
             Cardinality({k \in 1..Len(assessments) :
                              assessments[k].metrics.issues # <<>>})]

Summary(results, found, assessments, quality_threshold) ==
    LET quality_scores ==
            [k \in 1..Len(assessments) |-> assessments[k].metrics.overall_quality_score]
    IN  [total_duplicates   |->
             Cardinality({k \in 1..Len(results) : results[k].is_duplicate}),
         duplicate_clusters |-> Len(found),
         avg_quality_score  |-> MeanOrZero(quality_scores),
         articles_passing_quality |->
             Cardinality({k \in 1..Len(quality_scores) :
                              quality_scores[k] >= quality_threshold}),
         articles_with_issues |->
             Cardinality({k \in 1..Len(assessments) :
                              assessments[k].metrics.issues # <<>>})]

AnalysisResult(arts, threshold, cfg, results, found, assessments) ==
    [total_articles       |-> Len(arts),
     similarity_threshold |-> threshold,
     quality_threshold    |-> cfg.quality_threshold,
     similarity_results   |-> results,
     duplicate_clusters   |-> [k \in 1..Len(found) |-> CompiledCluster(found[k])],
     quality_assessments  |->
         [k \in 1..Len(assessments) |->
              CompiledAssessment(assessments[k], cfg.quality_threshold)],
     summary |-> Summary(results, found, assessments, cfg.quality_threshold)]

(***************************************************************************)
(* State machine                                                           *)
(***************************************************************************)
\* updated_at of an article: absent or None, 0, a string, a number of
\* milliseconds, a number beyond the platform's range, or a number of
\* seconds falling on a day of the model's calendar
Timestamp(kind, day) == [kind |-> kind, day |-> day]

NoTimestamp == Timestamp("none", 0)

\* self.min_content_length, self.max_content_age_days, self.quality_threshold
Config(min_content_length, max_content_age_days, quality_threshold) ==
    [min_content_length   |-> min_content_length,
     max_content_age_days |-> max_content_age_days,
     quality_threshold    |-> quality_threshold]

\* MIN_CONTENT_LENGTH, MAX_CONTENT_AGE_DAYS and QUALITY_SCORE_THRESHOLD unset
DefaultConfig == Config(50, 365, 7000)

NoArticle == [id |-> "", title |-> "", body |-> "", updated_at |-> NoTimestamp]

\* the workflow around the analyzer at rest: nothing saved, no variable set
\* in the environment, nothing loaded, approved, uploaded or requested
WorkflowIdle ==
    /\ analysis_file = "absent"
    /\ environ = <<>>
    /\ options = <<>>
    /\ settings = <<>>
    /\ original_articles = <<>>
    /\ approved_articles = <<>>
    /\ upload = <<>>
    /\ request = <<>>

\* the assessor and the orchestrator at rest
QualityIdle ==
    /\ config = DefaultConfig
    /\ now = 0
    /\ article = NoArticle
    /\ first_metrics = <<>>
    /\ second_metrics = <<>>
    /\ analysis_result = <<>>

Init ==
    /\ \E n \in 0..MaxArticles :
           \E f \in BatchChoices(n) : articles = Batch(n, f)
    /\ similarity_threshold \in Thresholds
    /\ similarity_results = <<>>
    /\ clusters = <<>>
    /\ pc = "start"
    /\ QualityIdle
    /\ WorkflowIdle

\* analyze_articles, first step: the similarity engine runs; a batch whose
\* titles hold no term makes the vectorizer raise and the run fail.
CalculateContentSimilarity ==
    /\ pc = "start"
    /\ ~EmptyVocabulary(articles)
    /\ similarity_results' = calculate_content_similarity(articles, similarity_threshold)
    /\ pc' = "similarity"
    /\ UNCHANGED <<articles, similarity_threshold, clusters>>
    /\ UNCHANGED <<qvars, wvars>>

CalculateContentSimilarityRaises ==
    /\ pc = "start"
    /\ EmptyVocabulary(articles)
    /\ pc' = "failed"
    /\ UNCHANGED <<articles, similarity_threshold, similarity_results, clusters>>
    /\ UNCHANGED <<qvars, wvars>>

\* analyze_articles, second step: the cluster builder runs on the results.
IdentifyDuplicateClusters ==
    /\ pc = "similarity"
    /\ clusters' = identify_duplicate_clusters(similarity_results)
    /\ pc' = "clustered"
    /\ UNCHANGED <<articles, similarity_threshold, similarity_results>>
    /\ UNCHANGED <<qvars, wvars>>

Next ==
    \/ CalculateContentSimilarity
    \/ CalculateContentSimilarityRaises
    \/ IdentifyDuplicateClusters

Spec == Init /\ [][Next]_vars

(***************************************************************************)
(* State machine of the quality assessor alone: one article is assessed,   *)
(* the clock may advance, and the same article is assessed again with the  *)
(* same configuration.  The assessor keeps no state of its own between     *)
(* calls: it reads the article, the configuration and the clock.           *)
(***************************************************************************)
MaxTicks == 2

Titles == {"vpn", "", "   "}

Bodies == {"", "b1", "b2", "long", "short", "brief", "medium", "dots", "todo",
           "script_todo", "escaped", "todo_escaped"}

\* days of the model's calendar on which a valid updated_at may fall,
\* relative to the day of the first call (positive: in the future)
UpdateDays == {-400, -365, -100, -30, -29, 0, 1, 365}

Timestamps ==
    {Timestamp(k, 0) : k \in {"none", "zero", "text", "millis", "huge"}}
        \cup {Timestamp("seconds", d) : d \in UpdateDays}

MinContentLengths == {50, 300}

MaxContentAges == {30, 365}

svars == <<articles, similarity_threshold, similarity_results, clusters>>

InitQuality ==
    /\ articles = <<>>
    /\ similarity_threshold = 850
    /\ similarity_results = <<>>
    /\ clusters = <<>>
    /\ pc = "idle"
    /\ \E min_len \in MinContentLengths, max_age \in MaxContentAges :
           config = Config(min_len, max_age, 7000)
    /\ now = 0
    /\ \E t \in Titles, b \in Bodies, u \in Timestamps :
           article = [id |-> "a1", title |-> t, body |-> b, updated_at |-> u]
    /\ first_metrics = <<>>
    /\ second_metrics = <<>>
    /\ analysis_result = <<>>
    /\ WorkflowIdle

\* assess_content_quality(article) returns
AssessContentQuality ==
    /\ pc = "idle"
    /\ ~AssessRaises(article)
    /\ first_metrics' = <<assess_content_quality(article, config, now)>>
    /\ pc' = "assessed"
    /\ UNCHANGED <<svars, config, now, article, second_metrics, analysis_result>>
    /\ UNCHANGED wvars

\* assess_content_quality(article) raises out of datetime.fromtimestamp
AssessContentQualityRaises ==
    /\ pc = "idle"
    /\ AssessRaises(article)
    /\ pc' = "raised"
    /\ UNCHANGED <<svars, qvars, wvars>>

\* a day passes between the two calls: datetime.now() moves on
Tick ==
    /\ pc = "assessed"
    /\ now < MaxTicks
    /\ now' = now + 1
    /\ UNCHANGED <<svars, pc, config, article, first_metrics, second_metrics,
                   analysis_result>>
    /\ UNCHANGED wvars

\* assess_content_quality(article) again, same article, same configuration
AssessAgain ==
    /\ pc = "assessed"
    /\ second_metrics' = <<assess_content_quality(article, config, now)>>
    /\ pc' = "reassessed"
    /\ UNCHANGED <<svars, config, now, article, first_metrics, analysis_result>>
    /\ UNCHANGED wvars

NextQuality ==
    \/ AssessContentQuality
    \/ AssessContentQualityRaises
    \/ Tick
    \/ AssessAgain

SpecQuality == InitQuality /\ [][NextQuality]_vars

(***************************************************************************)
(* State machine of analyze_articles as a whole: similarity, clusters,     *)
(* then the quality loop and the compilation of the result.  The articles  *)
(* carry an update timestamp, absent or out of the platform's range.       *)
(***************************************************************************)
MaxBatch == 3

BatchTimestamps == {NoTimestamp, Timestamp("huge", 0)}

\* quality thresholds the analyzer is constructed with (0.7 and 0.75)
QualityThresholds == {7000, 7500}

DatedArticle(i, hasId, content, updated_at) ==
    [id         |-> IF hasId THEN IdPool[i] ELSE MissingId,
     title      |-> content.title,
     body       |-> content.body,
     updated_at |-> updated_at]

\* a content with its update timestamp: every content undated or dated out
\* of range, and one complete article updated 100 days ago
DatedContents ==
    (Contents \X BatchTimestamps)
        \cup {<<[title |-> "vpn", body |-> "b1"], Timestamp("seconds", -100)>>}

DatedBatchChoices(n) == [1..n -> BOOLEAN \X DatedContents]

DatedBatch(n, f) ==
    [i \in 1..n |-> DatedArticle(i, f[i][1], f[i][2][1], f[i][2][2])]

InitAnalyze ==
    /\ \E n \in 0..MaxBatch :
           \E f \in DatedBatchChoices(n) : articles = DatedBatch(n, f)
    /\ similarity_threshold = 850
    /\ similarity_results = <<>>
    /\ clusters = <<>>
    /\ pc = "start"
    /\ \E quality_threshold \in QualityThresholds :
           config = Config(50, 365, quality_threshold)
    /\ now = 0
    /\ article = NoArticle
    /\ first_metrics = <<>>
    /\ second_metrics = <<>>
    /\ analysis_result = <<>>
    /\ WorkflowIdle

\* analyze_articles, last step: every article with an id is assessed and
\* the result with its summary is compiled and returned.
CompileAnalysis ==
    /\ pc = "clustered"
    /\ ~QualityLoopRaises(articles)
    /\ analysis_result' =
           <<AnalysisResult(articles, similarity_threshold, config,
                            similarity_results, clusters,
                            QualityLoop(articles, Len(articles), config, now))>>
    /\ pc' = "analyzed"
    /\ UNCHANGED <<svars, config, now, article, first_metrics, second_metrics>>
    /\ UNCHANGED wvars

\* an assessment raises inside the quality loop: the run fails
CompileAnalysisRaises ==
    /\ pc = "clustered"
    /\ QualityLoopRaises(articles)
    /\ pc' = "failed"
    /\ UNCHANGED <<svars, qvars, wvars>>

\* is_duplicate is the outcome of comparing a numpy float with the
\* threshold, a numpy bool, which json's encoder refuses: a result with at
\* least one similarity result cannot be serialized
HoldsNumpyBool(result) == Len(result.similarity_results) > 0

\* save_analysis: the file is opened for writing and the result is dumped
\* into it, piece by piece
SaveAnalysis ==
    /\ pc = "analyzed"
    /\ ~HoldsNumpyBool(analysis_result[1])
    /\ analysis_file' = "complete"
    /\ pc' = "saved"
    /\ UNCHANGED <<svars, qvars, environ, options, settings, original_articles,
                   approved_articles, upload, request>>

\* json.dump raises TypeError when it reaches the first is_duplicate: the
\* file holds what was written before it, and the run fails
SaveAnalysisRaises ==
    /\ pc = "analyzed"
    /\ HoldsNumpyBool(analysis_result[1])
    /\ analysis_file' = "partial"
    /\ pc' = "failed"
    /\ UNCHANGED <<svars, qvars, environ, options, settings, original_articles,
                   approved_articles, upload, request>>

NextAnalyze ==
    \/ CalculateContentSimilarity
    \/ CalculateContentSimilarityRaises
    \/ IdentifyDuplicateClusters
    \/ CompileAnalysis
    \/ CompileAnalysisRaises
    \/ SaveAnalysis
    \/ SaveAnalysisRaises

SpecAnalyze == InitAnalyze /\ [][NextAnalyze]_vars

(***************************************************************************)
(* Settings read from the process environment.  The environment is a       *)
(* function from the names of the variables that are set to their text;    *)
(* int() and float() turn a text into a number (floats in thousandths) or  *)
(* fail.                                                                   *)
(***************************************************************************)
\* int(text): the number, or -1 when the text is no integer literal
ParseInt(text) ==
    CASE text = "20"  -> 20
      [] text = "5"   -> 5
      [] text = "0"   -> 0
      [] text = "100" -> 100
      [] text = "30"  -> 30
      [] OTHER        -> -1

\* float(text), in thousandths: the number, or -1 when the text is no literal
ParseFloat(text) ==
    CASE text = "0.9"  -> 900
      [] text = "0.8"  -> 800
      [] text = "0.85" -> 850
      [] text = "0.7"  -> 700
      [] text = "0.75" -> 750
      [] text = "2.5"  -> 2500
      [] text = "20"   -> 20000
      [] text = "5"    -> 5000
      [] text = "0"    -> 0
      [] text = "100"  -> 100000
      [] text = "30"   -> 30000
      [] OTHER         -> -1

ProcessingFields ==
    {"batch_size", "similarity_threshold", "quality_threshold", "max_retries",
     "request_delay", "min_content_length", "max_content_age_days"}

\* variant: the class's env_prefix is put before the name of the field
FieldEnvPrefixed(field) == "PROCESSING_" \o field

\* Field(default, env=NAME): the variable a field is read from
FieldEnv(field) ==
    CASE field = "batch_size"           -> "BATCH_SIZE"
      [] field = "similarity_threshold" -> "SIMILARITY_THRESHOLD"
      [] field = "quality_threshold"    -> "QUALITY_SCORE_THRESHOLD"
      [] field = "max_retries"          -> "MAX_RETRIES"
      [] field = "request_delay"        -> "REQUEST_DELAY"
      [] field = "min_content_length"   -> "MIN_CONTENT_LENGTH"
      [] field = "max_content_age_days" -> "MAX_CONTENT_AGE_DAYS"

\* Field(default, ...): floats in thousandths
FieldDefault(field) ==
    CASE field = "batch_size"           -> 10
      [] field = "similarity_threshold" -> 850
      [] field = "quality_threshold"    -> 700
      [] field = "max_retries"          -> 3
      [] field = "request_delay"        -> 1000
      [] field = "min_content_length"   -> 50
      [] field = "max_content_age_days" -> 365

\* the annotation of a field
IsFloatField(field) ==
    field \in {"similarity_threshold", "quality_threshold", "request_delay"}

\* the value of a field: the parsed text of its variable when it is set,
\* the default otherwise
FieldValue(env, field) ==
    IF FieldEnv(field) \in DOMAIN env
    THEN IF IsFloatField(field) THEN ParseFloat(env[FieldEnv(field)])
         ELSE ParseInt(env[FieldEnv(field)])
    ELSE FieldDefault(field)

\* validation fails for a field whose text is no number
ProcessingInvalid(env) == \E field \in ProcessingFields : FieldValue(env, field) < 0

ProcessingSettings(env) == [field \in ProcessingFields |-> FieldValue(env, field)]

\* subdomain is a required field (email and api_token are taken as set)
ZendeskInvalid(env) == "ZENDESK_SUBDOMAIN" \notin DOMAIN env

\* variant: the configured URL is returned whenever the variable is set
FullBaseUrlWhenSet(subdomain, base_url) ==
    IF base_url # <<>>
    THEN base_url[1]
    ELSE "https://" \o subdomain \o ".zendesk.com/api/v2"

\* ZendeskSettings.full_base_url; base_url is <<>> for None, <<text>> otherwise
full_base_url(subdomain, base_url) ==
    IF base_url # <<>> /\ base_url[1] # ""
    THEN base_url[1]
    ELSE "https://" \o subdomain \o ".zendesk.com/api/v2"

ZendeskSettings(env) ==
    LET base_url == IF "ZENDESK_API_BASE_URL" \in DOMAIN env
                    THEN <<env["ZENDESK_API_BASE_URL"]>> ELSE <<>>
    IN  [subdomain     |-> env["ZENDESK_SUBDOMAIN"],
         base_url      |-> base_url,
         full_base_url |-> full_base_url(env["ZENDESK_SUBDOMAIN"], base_url)]

\* the texts each variable of the environment may hold when it is set
EnvTexts(name) ==
    CASE name = "BATCH_SIZE"              -> {"20", "abc"}
      [] name = "SIMILARITY_THRESHOLD"    -> {"0.9"}
      [] name = "QUALITY_SCORE_THRESHOLD" -> {"0.8"}
      [] name = "MAX_RETRIES"             -> {"5"}
      [] name = "REQUEST_DELAY"           -> {"2.5"}
      [] name = "MIN_CONTENT_LENGTH"      -> {"100"}
      [] name = "MAX_CONTENT_AGE_DAYS"    -> {"30"}
      [] name = "ZENDESK_SUBDOMAIN"       -> {"testcompany", "acme"}
      [] name = "ZENDESK_API_BASE_URL"    -> {"", "https://custom.zendesk.io/api/v2"}

EnvNames ==
    {"BATCH_SIZE", "SIMILARITY_THRESHOLD", "QUALITY_SCORE_THRESHOLD",
     "MAX_RETRIES", "REQUEST_DELAY", "MIN_CONTENT_LENGTH",
     "MAX_CONTENT_AGE_DAYS", "ZENDESK_SUBDOMAIN", "ZENDESK_API_BASE_URL"}

\* a variable is unset (<<>>) or set to one of its texts (<<text>>)
EnvOptions(name) == {<<>>} \cup {<<text>> : text \in EnvTexts(name)}

\* the environment in which the variables chosen to be set are set
Environment(choice) ==
    [name \in {n \in DOMAIN choice : choice[n] # <<>>} |-> choice[name][1]]

\* the analyzer, the assessor and the saved file at rest
AnalyzerIdle ==
    /\ articles = <<>>
    /\ similarity_threshold = 850
    /\ similarity_results = <<>>
    /\ clusters = <<>>
    /\ QualityIdle
    /\ analysis_file = "absent"

InitSettings ==
    /\ AnalyzerIdle
    /\ pc = "env"
    /\ \E batch \in EnvOptions("BATCH_SIZE"),
          similarity \in EnvOptions("SIMILARITY_THRESHOLD"),
          quality \in EnvOptions("QUALITY_SCORE_THRESHOLD"),
          retries \in EnvOptions("MAX_RETRIES"),
          delay \in EnvOptions("REQUEST_DELAY"),
          length \in EnvOptions("MIN_CONTENT_LENGTH"),
          age \in EnvOptions("MAX_CONTENT_AGE_DAYS"),
          subdomain \in EnvOptions("ZENDESK_SUBDOMAIN"),
          url \in EnvOptions("ZENDESK_API_BASE_URL") :
           environ = Environment(
               "BATCH_SIZE" :> batch @@ "SIMILARITY_THRESHOLD" :> similarity
                   @@ "QUALITY_SCORE_THRESHOLD" :> quality
                   @@ "MAX_RETRIES" :> retries @@ "REQUEST_DELAY" :> delay
                   @@ "MIN_CONTENT_LENGTH" :> length
                   @@ "MAX_CONTENT_AGE_DAYS" :> age
                   @@ "ZENDESK_SUBDOMAIN" :> subdomain
                   @@ "ZENDESK_API_BASE_URL" :> url)
    /\ options = <<>>
    /\ settings = <<>>
    /\ original_articles = <<>>
    /\ approved_articles = <<>>
    /\ upload = <<>>
    /\ request = <<>>

\* what the construction of settings leaves alone
SettingsUnchanged ==
    UNCHANGED <<svars, qvars, analysis_file, environ, options, original_articles,
                approved_articles, upload, request>>

\* ProcessingSettings()
LoadProcessingSettings ==
    /\ pc = "env"
    /\ ~ProcessingInvalid(environ)
    /\ settings' = <<ProcessingSettings(environ)>>
    /\ pc' = "processing"
    /\ SettingsUnchanged

\* ProcessingSettings() raises a validation error
LoadProcessingSettingsRaises ==
    /\ pc = "env"
    /\ ProcessingInvalid(environ)
    /\ settings' = settings
    /\ pc' = "invalid"
    /\ SettingsUnchanged

\* ZendeskSettings()
LoadZendeskSettings ==
    /\ pc = "env"
    /\ ~ZendeskInvalid(environ)
    /\ settings' = <<ZendeskSettings(environ)>>
    /\ pc' = "zendesk"
    /\ SettingsUnchanged

\* ZendeskSettings() raises a validation error: no subdomain
LoadZendeskSettingsRaises ==
    /\ pc = "env"
    /\ ZendeskInvalid(environ)
    /\ settings' = settings
    /\ pc' = "invalid"
    /\ SettingsUnchanged

NextSettings ==
    \/ LoadProcessingSettings
    \/ LoadProcessingSettingsRaises
    \/ LoadZendeskSettings
    \/ LoadZendeskSettingsRaises

SpecSettings == InitSettings /\ [][NextSettings]_vars

(***************************************************************************)
(* Review: auto_approve_articles, and the hand-over of the approved        *)
(* articles to the upload step in the migrate workflow.  The analysis      *)
(* result is the dict the analyzer compiled (migrate) or the one loaded    *)
(* from the analysis file (review); the original articles are those of the *)
(* most recent raw file.                                                   *)
(***************************************************************************)
\* the largest number of articles an analysis result speaks about
MaxReviewed == 3

\* one entry of quality_assessments, as far as the review reads it
ReviewedAssessment(article_id, passes_threshold, issues) ==
    [article_id |-> article_id, passes_threshold |-> passes_threshold,
     issues |-> issues]

\* one entry of duplicate_clusters, as far as the review reads it
ReviewedCluster(primary_article_id, duplicate_article_ids) ==
    [primary_article_id    |-> primary_article_id,
     duplicate_article_ids |-> duplicate_article_ids]

\* the clusterings an analysis of n articles may report
ReviewedClusterings(n) ==
    {<<>>}
        \cup (IF n >= 2
              THEN {<<ReviewedCluster(IdPool[1], <<IdPool[2]>>)>>}
              ELSE {})
        \cup (IF n >= 3
              THEN {<<ReviewedCluster(IdPool[2], <<IdPool[3]>>)>>,
                    <<ReviewedCluster(IdPool[1], <<IdPool[2], IdPool[3]>>)>>}
              ELSE {})

IssueLists == {<<>>, <<"Content too brief">>}

ReviewedResult(n, flags, found) ==
    [quality_assessments |->
         [k \in 1..n |-> ReviewedAssessment(IdPool[k], flags[k][1], flags[k][2])],
     duplicate_clusters  |-> found]

\* a raw article
RawArticle(k) == [id |-> IdPool[k], title |-> "vpn", body |-> "b1"]

\* the articles of the raw file that holds the articles numbered in present
RECURSIVE RawArticles(_, _)
RawArticles(present, k) ==
    IF k = 0 THEN <<>>
    ELSE IF k \in present
         THEN Append(RawArticles(present, k - 1), RawArticle(k))
         ELSE RawArticles(present, k - 1)

\* duplicate_article_ids: the primary and the duplicates of every cluster
DuplicateArticleIds(result) ==
    UNION {{result.duplicate_clusters[c].primary_article_id}
               \cup {result.duplicate_clusters[c].duplicate_article_ids[d] :
                         d \in 1..Len(result.duplicate_clusters[c].duplicate_article_ids)} :
           c \in 1..Len(result.duplicate_clusters)}

\* the keys of {article.get('id', ''): article for article in articles}
OriginalIds(originals) == {originals[k].id : k \in 1..Len(originals)}

\* original_articles[article_id]: the last article of the file with that id
OriginalArticle(originals, article_id) ==
    originals[CHOOSE k \in 1..Len(originals) :
                  /\ originals[k].id = article_id
                  /\ \A j \in (k + 1)..Len(originals) : originals[j].id # article_id]

\* variant: an article of a duplicate cluster may be approved
QualifiesDuplicatesToo(qa, duplicate_article_ids, originals) ==
    /\ qa.passes_threshold
    /\ qa.issues = <<>>
    /\ qa.article_id \in OriginalIds(originals)

\* the condition under which an assessed article is approved
Qualifies(qa, duplicate_article_ids, originals) ==
    /\ qa.passes_threshold
    /\ qa.issues = <<>>
    /\ qa.article_id \notin duplicate_article_ids
    /\ qa.article_id \in OriginalIds(originals)

\* for article_id, qa in quality_assessments.items(): ... auto_approved.append
RECURSIVE ApproveLoop(_, _, _, _)
ApproveLoop(assessments, k, duplicate_article_ids, originals) ==
    IF k = 0 THEN <<>>
    ELSE LET before == ApproveLoop(assessments, k - 1, duplicate_article_ids,
                                   originals)
         IN  IF Qualifies(assessments[k], duplicate_article_ids, originals)
             THEN Append(before,
                         OriginalArticle(originals, assessments[k].article_id))
             ELSE before

auto_approve_articles(result, originals) ==
    ApproveLoop(result.quality_assessments, Len(result.quality_assessments),
                DuplicateArticleIds(result), originals)

\* the call uploader.upload_articles(approved_articles, ..., dry_run=dry_run)
\* as it starts
UploadCall(batch, dry_run) ==
    [articles |-> batch, dry_run |-> dry_run, results |-> <<>>,
     created |-> <<>>]

\* The review command loads any saved analysis; the migrate workflow gets to
\* its review step only after save_analysis succeeded, that is with a result
\* of at most one article and no similarity result.  The raw file may be
\* missing in the review command.
InitReview ==
    /\ articles = <<>>
    /\ similarity_threshold = 850
    /\ similarity_results = <<>>
    /\ clusters = <<>>
    /\ config = DefaultConfig
    /\ now = 0
    /\ article = NoArticle
    /\ first_metrics = <<>>
    /\ second_metrics = <<>>
    /\ analysis_file = "complete"
    /\ environ = <<>>
    /\ settings = <<>>
    /\ approved_articles = <<>>
    /\ upload = <<>>
    /\ request = <<>>
    /\ \E n \in 0..MaxReviewed :
           \E flags \in [1..n -> BOOLEAN \X IssueLists],
              found \in ReviewedClusterings(n),
              present \in SUBSET (1..MaxReviewed),
              workflow \in {"review", "migrate"},
              dry_run \in BOOLEAN,
              raw_file \in BOOLEAN :
               /\ workflow = "migrate" => n <= 1 /\ raw_file
               /\ workflow = "review" => ~dry_run
               /\ ~raw_file => present = {}
               /\ analysis_result = <<ReviewedResult(n, flags, found)>>
               /\ original_articles =
                      IF raw_file THEN <<RawArticles(present, MaxReviewed)>>
                      ELSE <<>>
               /\ options = <<[dry_run |-> dry_run]>>
               /\ pc = workflow

ReviewUnchanged ==
    UNCHANGED <<svars, qvars, analysis_file, environ, options, settings,
                original_articles, request>>

\* auto_approve_articles returns the approved articles
AutoApprove ==
    /\ pc \in {"review", "migrate"}
    /\ original_articles # <<>>
    /\ approved_articles' =
           auto_approve_articles(analysis_result[1], original_articles[1])
    /\ pc' = IF pc = "review" THEN "reviewed" ELSE "approved"
    /\ UNCHANGED upload
    /\ ReviewUnchanged

\* load_original_articles finds no raw file and raises
AutoApproveRaises ==
    /\ pc \in {"review", "migrate"}
    /\ original_articles = <<>>
    /\ pc' = "failed"
    /\ UNCHANGED <<approved_articles, upload>>
    /\ ReviewUnchanged

\* migrate, if approved_articles: the approved articles go to the uploader
HandToUpload ==
    /\ pc = "approved"
    /\ approved_articles # <<>>
    /\ upload' = <<UploadCall(approved_articles, options[1].dry_run)>>
    /\ pc' = "uploading"
    /\ UNCHANGED approved_articles
    /\ ReviewUnchanged

\* migrate, else: no article qualified and the upload step is skipped
SkipUpload ==
    /\ pc = "approved"
    /\ approved_articles = <<>>
    /\ pc' = "done"
    /\ UNCHANGED <<approved_articles, upload>>
    /\ ReviewUnchanged

NextReview ==
    \/ AutoApprove
    \/ AutoApproveRaises
    \/ HandToUpload
    \/ SkipUpload

SpecReview == InitReview /\ [][NextReview]_vars

(***************************************************************************)
(* Upload: ZendeskUploader.upload_articles.  The articles are dicts of the *)
(* approved file: the title is a string, the id is a string or is absent,  *)
(* the body is a string or null.  One step of the model is one turn of the *)
(* loop; created lists the articles a create request was sent for.         *)
(***************************************************************************)
\* the largest number of articles handed to one call
MaxUploads == 3

\* a body that is null in the file
NullBody == "null"

\* the articles one call may be handed: with or without id, with a body or
\* with a null body
UploadArticle(i, hasId, body) ==
    [id |-> IF hasId THEN IdPool[i] ELSE MissingId, title |-> "vpn", body |-> body]

UploadBatches(n) ==
    {[i \in 1..n |-> UploadArticle(i, f[i][1], f[i][2])] :
         f \in [1..n -> BOOLEAN \X {"b1", NullBody}]}

\* article.get("id", f"unknown_{i}")
IntercomId(item, i) ==
    IF item.id = MissingId THEN "unknown_" \o ToString(i) ELSE item.id

\* ZendeskArticle(title=title, body=body, ...) refuses a body that is None
TransformRaises(item) == item.body = NullBody

UploadResult(intercom_id, zendesk_id, title, status) ==
    [intercom_id |-> intercom_id, zendesk_id |-> zendesk_id, title |-> title,
     status |-> status]

\* variant: the create request is sent in a dry run as well
SentInDryRunToo(call, intercom_id) == Append(call.created, intercom_id)

\* the create requests sent once the article was transformed
Sent(call, intercom_id) ==
    IF call.dry_run THEN call.created ELSE Append(call.created, intercom_id)

\* what the server may answer to a create request: the created article, a
\* failure after the retries, an empty response, or an exception in the call
CreateOutcomes == {"created", "failed", "empty", "raised"}

\* the result of one turn of the loop for the article at position i
TurnResult(call, i, outcome) ==
    LET item == call.articles[i]
        intercom_id == IntercomId(item, i)
    IN  IF TransformRaises(item)
        THEN UploadResult(intercom_id, <<>>, item.title, "failed")
        ELSE IF call.dry_run
             THEN UploadResult(intercom_id, <<>>, item.title, "success")
             ELSE IF outcome = "created"
                  THEN UploadResult(intercom_id, <<100 + i>>, item.title, "success")
                  ELSE UploadResult(intercom_id, <<>>, item.title, "failed")

AfterTurn(call, i, outcome) ==
    [call EXCEPT
        !.results = Append(@, TurnResult(call, i, outcome)),
        !.created = IF TransformRaises(call.articles[i]) THEN @
                    ELSE Sent(call, IntercomId(call.articles[i], i))]

InitUpload ==
    /\ AnalyzerIdle
    /\ environ = <<>>
    /\ options = <<>>
    /\ settings = <<>>
    /\ original_articles = <<>>
    /\ approved_articles = <<>>
    /\ request = <<>>
    /\ \E n \in 0..MaxUploads :
           \E batch \in UploadBatches(n), dry_run \in BOOLEAN :
               upload = <<UploadCall(batch, dry_run)>>
    /\ pc = "uploading"

UploadUnchanged ==
    UNCHANGED <<svars, qvars, analysis_file, environ, options, settings,
                original_articles, approved_articles, request>>

Position == Len(upload[1].results) + 1

\* the transformation raises: except Exception appends a failed result
ProcessTransformFails ==
    /\ pc = "uploading"
    /\ Position <= Len(upload[1].articles)
    /\ TransformRaises(upload[1].articles[Position])
    /\ upload' = <<AfterTurn(upload[1], Position, "raised")>>
    /\ UNCHANGED pc
    /\ UploadUnchanged

\* dry run: a success result without any request
ProcessDryRun ==
    /\ pc = "uploading"
    /\ Position <= Len(upload[1].articles)
    /\ ~TransformRaises(upload[1].articles[Position])
    /\ upload[1].dry_run
    /\ upload' = <<AfterTurn(upload[1], Position, "created")>>
    /\ UNCHANGED pc
    /\ UploadUnchanged

\* create_article returns (True, response)
ProcessCreated ==
    /\ pc = "uploading"
    /\ Position <= Len(upload[1].articles)
    /\ ~TransformRaises(upload[1].articles[Position])
    /\ ~upload[1].dry_run
    /\ upload' = <<AfterTurn(upload[1], Position, "created")>>
    /\ UNCHANGED pc
    /\ UploadUnchanged

\* create_article returns (False, message) or (True, None), or raises
ProcessCreateFails ==
    /\ pc = "uploading"
    /\ Position <= Len(upload[1].articles)
    /\ ~TransformRaises(upload[1].articles[Position])
    /\ ~upload[1].dry_run
    /\ \E outcome \in CreateOutcomes \ {"created"} :
           upload' = <<AfterTurn(upload[1], Position, outcome)>>
    /\ UNCHANGED pc
    /\ UploadUnchanged

\* the loop is over: return upload_results
ReturnUploadResults ==
    /\ pc = "uploading"
    /\ Position > Len(upload[1].articles)
    /\ pc' = "uploaded"
    /\ UNCHANGED upload
    /\ UploadUnchanged

NextUpload ==
    \/ ProcessTransformFails
    \/ ProcessDryRun
    \/ ProcessCreated
    \/ ProcessCreateFails
    \/ ReturnUploadResults

SpecUpload == InitUpload /\ [][NextUpload]_vars

(***************************************************************************)
(* Retry loop of the two REST clients: IntercomExtractor._make_request     *)
(* (GET only, returns the decoded response or raises) and                  *)
(* ZendeskUploader._make_request (returns a pair (success, payload)).      *)
(* attempts lists the outcome of every HTTP attempt of the call.           *)
(***************************************************************************)
\* the largest MAX_RETRIES of the model (the default is 3)
MaxRetries == 3

Clients == {"extractor", "uploader"}

\* the methods the callers of the uploader's _make_request pass; the
\* extractor only sends GET
Methods(client) ==
    IF client = "extractor" THEN {"GET"} ELSE {"GET", "POST", "PUT", "DELETE"}

RequestCall(client, method, max_retries) ==
    [client |-> client, method |-> method, max_retries |-> max_retries,
     attempts |-> <<>>, outcome |-> "pending"]

\* what a successful attempt returns: response.json(), and in the uploader
\* (True, None) when the response has no content
Responses(client) ==
    IF client = "extractor" THEN {"response"} ELSE {"response", "no_content"}

\* what the last failed attempt reports: raise Exception(...) in the
\* extractor, return False, "Failed after ..." in the uploader
Reported(client) == IF client = "extractor" THEN "exception" ELSE "failed_after"

\* what the call returns when the for loop ends without a return: the
\* extractor's function ends there (None); the uploader returns
\* False, "Request failed"
AfterLoop(client) ==
    IF client = "extractor" THEN "none" ELSE "request_failed"

InitRetry ==
    /\ AnalyzerIdle
    /\ environ = <<>>
    /\ options = <<>>
    /\ settings = <<>>
    /\ original_articles = <<>>
    /\ approved_articles = <<>>
    /\ upload = <<>>
    /\ \E client \in Clients :
           \E method \in Methods(client), max_retries \in 0..MaxRetries :
               request = <<RequestCall(client, method, max_retries)>>
    /\ pc = "requesting"

RetryUnchanged ==
    UNCHANGED <<svars, qvars, analysis_file, environ, options, settings,
                original_articles, approved_articles, upload>>

\* for attempt in range(self.max_retries): the loop has a turn left
InLoop ==
    /\ pc = "requesting"
    /\ Len(request[1].attempts) < request[1].max_retries

\* the attempt succeeds: return
AttemptSucceeds ==
    /\ InLoop
    /\ \E returned \in Responses(request[1].client) :
           request' = <<[request[1] EXCEPT !.attempts = Append(@, "ok"),
                                           !.outcome = returned]>>
    /\ pc' = "returned"
    /\ RetryUnchanged

\* the attempt fails and is not the last: sleep and go round again
AttemptFails ==
    /\ InLoop
    /\ Len(request[1].attempts) # request[1].max_retries - 1
    /\ request' = <<[request[1] EXCEPT !.attempts = Append(@, "error")]>>
    /\ UNCHANGED pc
    /\ RetryUnchanged

\* the attempt fails and attempt == self.max_retries - 1: report
AttemptFailsLast ==
    /\ InLoop
    /\ Len(request[1].attempts) = request[1].max_retries - 1
    /\ request' = <<[request[1] EXCEPT !.attempts = Append(@, "error"),
                                       !.outcome = Reported(request[1].client)]>>
    /\ pc' = "returned"
    /\ RetryUnchanged

\* the loop ends without a return
LoopEnds ==
    /\ pc = "requesting"
    /\ Len(request[1].attempts) >= request[1].max_retries
    /\ request' = <<[request[1] EXCEPT !.outcome = AfterLoop(request[1].client)]>>
    /\ pc' = "returned"
    /\ RetryUnchanged

NextRetry ==
    \/ AttemptSucceeds
    \/ AttemptFails
    \/ AttemptFailsLast
    \/ LoopEnds

SpecRetry == InitRetry /\ [][NextRetry]_vars

(***************************************************************************)
(* ContentAnalyzer.__init__: the thresholds the analyzer works with come   *)
(* from the environment or from the constructor's arguments (the options   *)
(* of the analyze command).  The constructed analyzer then analyzes a      *)
(* batch.                                                                  *)
(***************************************************************************)
\* the largest batch the constructed analyzer is given
MaxConfigured == 2

\* str(x) of a threshold given in thousandths
FormatFloat(x) ==
    CASE x = 850 -> "0.85"
      [] x = 900 -> "0.9"
      [] x = 700 -> "0.7"
      [] x = 800 -> "0.8"

\* variant: the constructor's value is taken whatever the environment holds
GetenvDefaultOnly(env, name, default) == default

\* os.getenv(name, default)
Getenv(env, name, default) == IF name \in DOMAIN env THEN env[name] ELSE default

\* float(os.getenv("SIMILARITY_THRESHOLD", str(similarity_threshold))), in
\* thousandths, -1 when float() raises
ConstructedSimilarityThreshold(env, given) ==
    ParseFloat(Getenv(env, "SIMILARITY_THRESHOLD", FormatFloat(given)))

\* float(os.getenv("QUALITY_SCORE_THRESHOLD", str(quality_threshold))), in
\* thousandths, -1 when float() raises
ConstructedQualityThreshold(env, given) ==
    ParseFloat(Getenv(env, "QUALITY_SCORE_THRESHOLD", FormatFloat(given)))

\* the texts the two variables hold when they are set
ThresholdTexts(name) ==
    CASE name = "SIMILARITY_THRESHOLD"    -> {"0.7", "abc"}
      [] name = "QUALITY_SCORE_THRESHOLD" -> {"0.75", "abc"}

ThresholdOptions(name) == {<<>>} \cup {<<text>> : text \in ThresholdTexts(name)}

\* --similarity-threshold and --quality-threshold, in thousandths: the
\* defaults 0.85 and 0.7, or 0.9 and 0.8
SimilarityOptions == {850, 900}

QualityOptions == {700, 800}

\* the batches the constructed analyzer is given: articles with ids, undated,
\* or dated out of the platform's range
ConfiguredContents ==
    (Contents \X {NoTimestamp})
        \cup {<<[title |-> "vpn", body |-> "b1"], Timestamp("huge", 0)>>}

ConfiguredBatches(n) ==
    {DatedBatch(n, [i \in 1..n |-> <<TRUE, f[i]>>]) :
         f \in [1..n -> ConfiguredContents]}

InitConstruct ==
    /\ \E n \in 0..MaxConfigured : articles \in ConfiguredBatches(n)
    /\ similarity_threshold = 850
    /\ similarity_results = <<>>
    /\ clusters = <<>>
    /\ QualityIdle
    /\ analysis_file = "absent"
    /\ \E similarity \in ThresholdOptions("SIMILARITY_THRESHOLD"),
          quality \in ThresholdOptions("QUALITY_SCORE_THRESHOLD") :
           environ = Environment("SIMILARITY_THRESHOLD" :> similarity
                                     @@ "QUALITY_SCORE_THRESHOLD" :> quality)
    /\ \E similarity_threshold_option \in SimilarityOptions,
          quality_threshold_option \in QualityOptions :
           options = <<[similarity_threshold |-> similarity_threshold_option,
                        quality_threshold    |-> quality_threshold_option]>>
    /\ settings = <<>>
    /\ original_articles = <<>>
    /\ approved_articles = <<>>
    /\ upload = <<>>
    /\ request = <<>>
    /\ pc = "construct"

ConstructRaises(env, opts) ==
    \/ ConstructedSimilarityThreshold(env, opts.similarity_threshold) = -1
    \/ ConstructedQualityThreshold(env, opts.quality_threshold) = -1

\* ContentAnalyzer(similarity_threshold=..., quality_threshold=...);
\* MIN_CONTENT_LENGTH and MAX_CONTENT_AGE_DAYS are unset.  The quality
\* threshold is kept in ten-thousandths.
Construct ==
    /\ pc = "construct"
    /\ ~ConstructRaises(environ, options[1])
    /\ similarity_threshold' =
           ConstructedSimilarityThreshold(environ, options[1].similarity_threshold)
    /\ config' =
           Config(50, 365,
                  10 * ConstructedQualityThreshold(environ, options[1].quality_threshold))
    /\ pc' = "start"
    /\ UNCHANGED <<articles, similarity_results, clusters, now, article,
                   first_metrics, second_metrics, analysis_result>>
    /\ UNCHANGED wvars

\* float() refuses the text of a variable: the constructor raises
ConstructFails ==
    /\ pc = "construct"
    /\ ConstructRaises(environ, options[1])
    /\ pc' = "unconstructed"
    /\ UNCHANGED <<svars, qvars, wvars>>

NextConstruct ==
    \/ Construct
    \/ ConstructFails
    \/ CalculateContentSimilarity
    \/ CalculateContentSimilarityRaises
    \/ IdentifyDuplicateClusters
    \/ CompileAnalysis
    \/ CompileAnalysisRaises

SpecConstruct == InitConstruct /\ [][NextConstruct]_vars

(***************************************************************************)
(* Vocabulary of the properties                                            *)
(***************************************************************************)
Returned == pc \in {"similarity", "clustered"}

Clustered == pc = "clustered"

NumArticles == Len(articles)

ClusterIndexes == 1..Len(clusters)

\* primary first, then the duplicates
Members(c) == <<c.primary_article_id>> \o c.duplicate_article_ids

MemberSet(c) == { Members(c)[k] : k \in 1..Len(Members(c)) }

ResultIndexes == 1..Len(similarity_results)

FlaggedIndexes == { k \in ResultIndexes : similarity_results[k].is_duplicate }

EndpointIds(k) ==
    {similarity_results[k].article_id_1, similarity_results[k].article_id_2}

\* every id that is an endpoint of some result
ResultIds == UNION { EndpointIds(k) : k \in ResultIndexes }

\* the ids one flagged pair away from a set of ids
FlaggedNeighbours(S) ==
    UNION { EndpointIds(k) : k \in { f \in FlaggedIndexes : EndpointIds(f) \cap S # {} } }

\* the ids linked to x by a chain of flagged pairs (x included)
RECURSIVE Grow(_)
Grow(S) == LET T == S \cup FlaggedNeighbours(S) IN IF T = S THEN S ELSE Grow(T)

Linked(x, y) == y \in Grow({x})

\* input positions of the two articles of result k
PairOf(k) == PairLoop(1, 2, NumArticles)[k]

\* first input position at which an id occurs
FirstPosition(id) ==
    CHOOSE i \in 1..NumArticles :
        /\ articles[i].id = id
        /\ \A h \in 1..(i - 1) : articles[h].id # id

DistinctIds ==
    \A i, j \in 1..NumArticles : i # j => articles[i].id # articles[j].id

(***************************************************************************)
(* C1                                                                      *)
(***************************************************************************)
\* C1: after identify_duplicate_clusters, no article id occurs twice among
\* the primary and duplicate ids of all returned clusters, neither in two
\* clusters nor twice in one.
C1_MembershipIsPartition ==
    Clustered =>
        \A c1, c2 \in ClusterIndexes :
            \A k1 \in 1..Len(Members(clusters[c1])) :
                \A k2 \in 1..Len(Members(clusters[c2])) :
                    (<<c1, k1>> # <<c2, k2>>)
                        => Members(clusters[c1])[k1] # Members(clusters[c2])[k2]

\* two clusters are returned, over four articles
C1_Witness ==
    /\ Clustered
    /\ Len(clusters) = 2
    /\ Cardinality(MemberSet(clusters[1]) \cup MemberSet(clusters[2])) = 4

(***************************************************************************)
(* C2                                                                      *)
(***************************************************************************)
SameCluster(x, y) ==
    \E c \in ClusterIndexes : {x, y} \subseteq MemberSet(clusters[c])

C3_OneResultPerPair ==
    pc # "start" =>
        LET pairs == PairLoop(1, 2, NumArticles)
        IN  /\ pc # "failed"
            /\ 2 * Len(similarity_results) = NumArticles * (NumArticles - 1)
            /\ \A i, j \in 1..NumArticles :
                   i < j =>
                       Cardinality({ k \in ResultIndexes : pairs[k] = <<i, j>> }) = 1
            /\ \A k \in ResultIndexes :
                   /\ pairs[k][1] < pairs[k][2]
                   /\ similarity_results[k].article_id_1 = articles[pairs[k][1]].id
                   /\ similarity_results[k].article_id_2 = articles[pairs[k][2]].id

\* the same, of the runs in which the similarity engine returns
PairsOnReturn == pc # "failed" => C3_OneResultPerPair

(***************************************************************************)
(* C4                                                                      *)
(***************************************************************************)
\* C4: every result has is_duplicate true exactly when its overall
\* similarity is at least the similarity threshold in effect (a pair exactly
\* at the threshold is flagged).
C4_FlagIffAtLeastThreshold ==
    Returned =>
        \A k \in ResultIndexes :
            similarity_results[k].is_duplicate
                <=> (similarity_results[k].overall_similarity >= similarity_threshold)

\* a pair exactly at the threshold, and a pair below it
C4_Witness ==
    /\ Returned
    /\ \E k \in ResultIndexes :
           /\ similarity_results[k].overall_similarity = similarity_threshold
           /\ similarity_results[k].is_duplicate
    /\ \E k \in ResultIndexes : ~similarity_results[k].is_duplicate

(***************************************************************************)
(* C5                                                                      *)
(***************************************************************************)
DuplicateIdSet(c) ==
    { c.duplicate_article_ids[k] : k \in 1..Len(c.duplicate_article_ids) }

\* the flagged results with both ends in cluster c
FlaggedInside(c) == { k \in FlaggedIndexes : EndpointIds(k) \subseteq MemberSet(c) }

\* input positions of the articles of the flagged pairs of cluster c
ClusteredPositions(c) ==
    UNION { {PairOf(k)[1], PairOf(k)[2]} : k \in FlaggedInside(c) }

Least(S) == CHOOSE x \in S : \A y \in S : x <= y

ActionFollowsMean ==
    Clustered =>
        \A c \in ClusterIndexes :
            LET scores == clusters[c].similarity_scores
                total  == SumSeq(scores)
                n      == Len(scores)
                action == clusters[c].recommended_action
            IN  /\ n > 0
                /\ (action = "keep_primary") <=> (total >= 950 * n)
                /\ (action = "merge") <=> (850 * n <= total /\ total < 950 * n)
                /\ (action = "manual_review") <=> (total < 850 * n)

\* C6: the action of every cluster is keep_primary, merge or manual_review
\* as the mean of its scores is >= 0.95, in [0.85, 0.95) or below; and a
\* batch with exactly one flagged pair, of overall similarity >= 0.95, gives
\* exactly one cluster, of two members, with action keep_primary.
C6_ActionByMeanAndSinglePair ==
    /\ ActionFollowsMean
    /\ Clustered =>
           ((/\ Cardinality(FlaggedIndexes) = 1
             /\ \A k \in FlaggedIndexes :
                    similarity_results[k].overall_similarity >= 950)
            => /\ Len(clusters) = 1
               /\ Len(Members(clusters[1])) = 2
               /\ clusters[1].recommended_action = "keep_primary")

(***************************************************************************)
(* C7                                                                      *)
(***************************************************************************)
ScoreSet(c) == { c.similarity_scores[n] : n \in 1..Len(c.similarity_scores) }

\* the results, flagged or not, with both ends in cluster c
ResultsInside(c) == { k \in ResultIndexes : EndpointIds(k) \subseteq MemberSet(c) }

\* C7 (as stated): the scores of a cluster are the overall similarities of
\* the pairs with both ends in the cluster: the score of every pair of
\* members is in the list, and nothing else is.
C7_ScoresOfAllMemberPairs ==
    Clustered =>
        \A c \in ClusterIndexes :
            /\ \A x, y \in MemberSet(clusters[c]) :
                   x # y =>
                       \E k \in ResultsInside(clusters[c]) :
                           /\ EndpointIds(k) = {x, y}
                           /\ similarity_results[k].overall_similarity
                                  \in ScoreSet(clusters[c])
            /\ \A score \in ScoreSet(clusters[c]) :
                   \E k \in ResultsInside(clusters[c]) :
                       similarity_results[k].overall_similarity = score

\* C7 (amended): the scores of a cluster are the overall similarities of
\* the flagged pairs with both ends in the cluster, one entry per such
\* result, in the order of the results.
C7_ScoresOfFlaggedMemberPairs ==
    Clustered =>
        \A c \in ClusterIndexes :
            LET inside == FlaggedInside(clusters[c])
            IN  /\ Len(clusters[c].similarity_scores) = Cardinality(inside)
                /\ \A k \in inside :
                       clusters[c].similarity_scores[
                           Cardinality({ h \in inside : h <= k })]
                           = similarity_results[k].overall_similarity

\* a cluster two of whose members form a pair that is not flagged
C7_Witness ==
    /\ Clustered
    /\ \E c \in ClusterIndexes :
           /\ Len(clusters[c].similarity_scores) >= 2
           /\ \E k \in ResultsInside(clusters[c]) \ FlaggedIndexes :
                  Cardinality(EndpointIds(k)) = 2

(***************************************************************************)
(* C8                                                                      *)
(***************************************************************************)
IsFlaggedEndpoint(id) == \E k \in FlaggedIndexes : id \in EndpointIds(k)

InSomeCluster(id) == \E c \in ClusterIndexes : id \in MemberSet(clusters[c])

Discovery(c) == Least(FlaggedInside(c))

\* C9: the k clusters of a run are named cluster_1 .. cluster_k in the
\* order their components were discovered, without gap or repetition.
C9_ClusterIdsSequential ==
    Clustered =>
        /\ \A k \in ClusterIndexes :
               clusters[k].cluster_id = "cluster_" \o ToString(k)
        /\ \A k, h \in ClusterIndexes :
               k < h => Discovery(clusters[k]) < Discovery(clusters[h])

\* two clusters, named cluster_1 and cluster_2
C9_Witness ==
    /\ Clustered
    /\ Len(clusters) >= 2
    /\ clusters[1].cluster_id = "cluster_1"
    /\ clusters[2].cluster_id = "cluster_2"

\* a component of one id is discovered, and discarded, before cluster_1
DiscardedBeforeFirstCluster ==
    /\ Clustered
    /\ clusters # <<>>
    /\ \E k \in FlaggedIndexes :
           /\ Cardinality(EndpointIds(k)) = 1
           /\ \A id \in EndpointIds(k) : ~InSomeCluster(id)
           /\ k < Discovery(clusters[1])

(***************************************************************************)
(* C10                                                                     *)
(***************************************************************************)
\* C10: the title, content and overall similarity of every result lie in
\* [0, 1].
C10_SimilaritiesInUnitInterval ==
    Returned =>
        \A k \in ResultIndexes :
            /\ 0 <= similarity_results[k].title_similarity
            /\ similarity_results[k].title_similarity <= 100
            /\ 0 <= similarity_results[k].content_similarity
            /\ similarity_results[k].content_similarity <= 100
            /\ 0 <= similarity_results[k].overall_similarity
            /\ similarity_results[k].overall_similarity <= 1000

(***************************************************************************)
(* Vocabulary of the assessor's properties                                 *)
(***************************************************************************)
\* the metrics returned by a call made on the current day: the first call
\* until the clock moves, the second call once it has been made
CallsToday ==
    (IF pc = "assessed" /\ now = 0 THEN {first_metrics[1]} ELSE {})
        \cup (IF pc = "reassessed" THEN {second_metrics[1]} ELSE {})

\* every metrics value returned so far
CallsMade ==
    {first_metrics[k] : k \in 1..Len(first_metrics)}
        \cup {second_metrics[k] : k \in 1..Len(second_metrics)}

ComponentScores(m) ==
    {m.readability_score, m.completeness_score, m.freshness_score,
     m.technical_accuracy_score}

\* C11: for every article, degenerate ones included (empty body, missing
\* timestamp, empty title, any update timestamp value), the assessor returns
\* an overall score in [0,1] and four component scores each in [0,1].
C11_ScoresInUnitInterval ==
    \A m \in CallsMade :
        /\ \A score \in ComponentScores(m) : 0 <= score /\ score <= 1000
        /\ 0 <= m.overall_quality_score
        /\ m.overall_quality_score <= 10000

\* C12: the assessor never raises, however malformed the article record
\* (bad, out-of-range or wrongly typed update timestamp, empty body, empty
\* title): a metrics value is always returned.
C12_AssessNeverRaises == pc # "raised"

PresentAndParseable(updated_at) == updated_at.kind = "seconds"

\* C13: with a present and parseable update timestamp the freshness score is
\* clamp(1 - days_old/max_age, 0, 1) and 'Content may be outdated' is among
\* the issues exactly when days_old > max_age; with a missing or unparseable
\* timestamp it is 0.5 with the issue 'No update timestamp' or 'Invalid
\* update timestamp'.
C13_FreshnessIsClampedAge ==
    \A m \in CallsToday :
        LET updated_at == article.updated_at
            max_age    == config.max_content_age_days
            days_old   == now - updated_at.day
        IN  IF PresentAndParseable(updated_at)
            THEN /\ m.freshness_score =
                        Min(1000, Max(0, 1000 - ((1000 * days_old) \div max_age)))
                 /\ InSeq("Content may be outdated", m.issues) <=> days_old > max_age
            ELSE /\ m.freshness_score = 500
                 /\ \/ InSeq("No update timestamp", m.issues)
                    \/ InSeq("Invalid update timestamp", m.issues)
                 /\ ~InSeq("Content may be outdated", m.issues)

\* the number of entries of a sequence that belong to a set
Count(seq, S) == Cardinality({k \in 1..Len(seq) : seq[k] \in S})

TechnicalIssueStrings ==
    {"Contains unprocessed HTML", "Contains TODO/FIXME markers",
     "Missing or empty title"}

\* the raw body holds TODO or FIXME somewhere, in any of its segments
BodyContainsMarker(body) ==
    \E k \in 1..Len(Markup(body)) : Markup(body)[k].marker

\* what the three deductions leave of 1.0, floored at 0.0
AfterDeductions(tag, marker, blank_title) ==
    Max(0, 1000 - (IF tag THEN 200 ELSE 0) - (IF marker THEN 300 ELSE 0)
                - (IF blank_title THEN 500 ELSE 0))

NumDeductions(tag, marker, blank_title) ==
    (IF tag THEN 1 ELSE 0) + (IF marker THEN 1 ELSE 0)
        + (IF blank_title THEN 1 ELSE 0)

\* the technical accuracy score and its issues, given which deductions apply
TechnicalAsDeducted(m, tag, marker, blank_title) ==
    /\ m.technical_accuracy_score = AfterDeductions(tag, marker, blank_title)
    /\ Count(m.issues, TechnicalIssueStrings) = NumDeductions(tag, marker, blank_title)
    /\ InSeq("Contains unprocessed HTML", m.issues) <=> tag
    /\ InSeq("Contains TODO/FIXME markers", m.issues) <=> marker
    /\ InSeq("Missing or empty title", m.issues) <=> blank_title

\* C14 (as stated): technical accuracy is 1.0 less 0.2 for leftover markup
\* tags, 0.3 for a TODO or FIXME, 0.5 for an empty or whitespace-only title,
\* cumulative and floored at 0.0, with one issue per deduction; a body that
\* contains TODO always costs 0.3.
C14_BodyMarkerAlwaysCosts ==
    \A m \in CallsMade :
        TechnicalAsDeducted(m, extract_clean_text(article.body).has_tag,
                            BodyContainsMarker(article.body),
                            StripTitle(article.title) = "")

\* C14 (amended): as above, with the TODO/FIXME deduction made exactly when
\* the normalized text of the body holds the marker: a marker that the
\* normalizer drops with a script or style block costs nothing.
C14_NormalizedMarkerCosts ==
    \A m \in CallsMade :
        TechnicalAsDeducted(m, extract_clean_text(article.body).has_tag,
                            extract_clean_text(article.body).has_marker,
                            StripTitle(article.title) = "")

\* all three deductions apply to an assessed article and leave exactly 0.0
C14_Witness ==
    /\ pc = "reassessed"
    /\ extract_clean_text(article.body).has_tag
    /\ extract_clean_text(article.body).has_marker
    /\ article.title = "   "
    /\ second_metrics[1].technical_accuracy_score = 0
    /\ Count(second_metrics[1].issues, TechnicalIssueStrings) = 3

\* the readability rules common to both readings: no sentence gives 0 and
\* the issue, a mean of exactly 15 words gives 1.0
ReadabilityFixedPoints(m, text) ==
    /\ text.sentences = 0 =>
           /\ m.readability_score = 0
           /\ InSeq("No readable sentences found", m.issues)
    /\ text.sentences > 0 => ~InSeq("No readable sentences found", m.issues)
    /\ (text.sentences > 0 /\ text.words = 15 * text.sentences) =>
           m.readability_score = 1000

\* C15 (as stated): a mean of 15 words per sentence scores 1.0, a longer or
\* a shorter mean scores below 1.0, and no sentence at all scores 0 with the
\* issue 'No readable sentences found'.
C15_ShorterOrLongerScoresLess ==
    \A m \in CallsMade :
        LET text == extract_clean_text(article.body)
        IN  /\ ReadabilityFixedPoints(m, text)
            /\ (text.sentences > 0 /\ text.words # 15 * text.sentences) =>
                   m.readability_score < 1000

\* C15 (amended): a mean of at most 15 words per sentence scores 1.0, a
\* longer mean scores below 1.0, falling to 0 from a mean of 45 words on,
\* and no sentence at all scores 0 with the issue.
C15_OnlyLongerScoresLess ==
    \A m \in CallsMade :
        LET text == extract_clean_text(article.body)
        IN  /\ ReadabilityFixedPoints(m, text)
            /\ (text.sentences > 0 /\ text.words < 15 * text.sentences) =>
                   m.readability_score = 1000
            /\ (text.sentences > 0 /\ text.words > 15 * text.sentences) =>
                   /\ m.readability_score < 1000
                   /\ m.readability_score >= 0
                   /\ text.words >= 45 * text.sentences => m.readability_score = 0

\* an article whose sentences average 5 words has been assessed: 1.0
C15_Witness ==
    /\ pc = "assessed"
    /\ extract_clean_text(article.body).sentences = 1
    /\ extract_clean_text(article.body).words = 5
    /\ first_metrics[1].readability_score = 1000

CompletenessIssueStrings == {"Content too short", "Content may be too brief"}

\* C16: with L the length of the normalized body, L < min gives 0.0 and
\* 'Content too short'; min <= L < 200 gives 0.5 and an issue; L >= 200 and
\* L >= min gives 1.0 and no completeness issue; for every min, also one
\* above 200.
C16_CompletenessByLength ==
    \A m \in CallsMade :
        LET L   == extract_clean_text(article.body).length
            min == config.min_content_length
        IN  /\ L < min =>
                   /\ m.completeness_score = 0
                   /\ InSeq("Content too short", m.issues)
            /\ (min <= L /\ L < 200) =>
                   /\ m.completeness_score = 500
                   /\ InSeq("Content may be too brief", m.issues)
            /\ (L >= 200 /\ L >= min) =>
                   /\ m.completeness_score = 1000
                   /\ Count(m.issues, CompletenessIssueStrings) = 0
            /\ Count(m.issues, CompletenessIssueStrings) <= 1

\* the minimum is 300 and the assessed body has 250 characters: 0.0
C16_Witness ==
    /\ pc = "assessed"
    /\ config.min_content_length > 200
    /\ extract_clean_text(article.body).length >= 200
    /\ extract_clean_text(article.body).length < config.min_content_length
    /\ first_metrics[1].completeness_score = 0
    /\ InSeq("Content too short", first_metrics[1].issues)

\* C18: two calls of the assessor on the same article with the same
\* configuration return identical scores and identical issue lists, whatever
\* happens between them (passage of time included).
C18_SecondCallEqualsFirst ==
    pc = "reassessed" => second_metrics = first_metrics

(***************************************************************************)
(* Vocabulary of the properties of analyze_articles                        *)
(***************************************************************************)
Analyzed == pc = "analyzed"

\* the result returned by analyze_articles
TheResult == analysis_result[1]

AssessmentIndexes == 1..Len(TheResult.quality_assessments)

\* the keys of the quality map
AssessedIds == {TheResult.quality_assessments[k].article_id : k \in AssessmentIndexes}

\* the ids of the input articles that carry one
ValidIds == {articles[i].id : i \in {h \in 1..NumArticles : articles[h].id # ""}}

\* the results of the similarity engine in which input position p takes part
ResultsAtPosition(p) ==
    LET pairs == PairLoop(1, 2, NumArticles)
    IN  {k \in 1..Len(similarity_results) :
             \/ pairs[k][1] = p /\ similarity_results[k].article_id_1 = articles[p].id
             \/ pairs[k][2] = p /\ similarity_results[k].article_id_2 = articles[p].id}

\* C17: for every article of the analysis result the overall quality score
\* is 0.2*readability + 0.3*completeness + 0.2*freshness + 0.3*technical
\* accuracy, and passes_threshold is true exactly when that score is at
\* least the quality threshold in effect (a score at the threshold passes).
C17_WeightedSumAndInclusiveThreshold ==
    Analyzed =>
        /\ TheResult.quality_threshold = config.quality_threshold
        /\ \A k \in AssessmentIndexes :
               LET qa == TheResult.quality_assessments[k]
               IN  /\ qa.overall_quality_score =
                          2 * qa.readability_score + 3 * qa.completeness_score
                              + 2 * qa.freshness_score + 3 * qa.technical_accuracy_score
                   /\ qa.passes_threshold
                          <=> qa.overall_quality_score >= config.quality_threshold

\* an article of the result scores exactly the threshold and passes, and
\* another one scores less and does not
C17_Witness ==
    /\ Analyzed
    /\ \E k \in AssessmentIndexes :
           /\ TheResult.quality_assessments[k].overall_quality_score
                  = config.quality_threshold
           /\ TheResult.quality_assessments[k].passes_threshold
    /\ \E k \in AssessmentIndexes :
           ~TheResult.quality_assessments[k].passes_threshold

\* C19: in a run of analyze_articles that succeeds, an article without id
\* has no entry in quality_assessments but takes part, by its position, in
\* N-1 similarity results; every article with an id has an entry under it.
C19_IdlessSkippedButCompared ==
    Analyzed =>
        /\ AssessedIds = ValidIds
        /\ Len(TheResult.quality_assessments) = Cardinality(ValidIds)
        /\ TheResult.similarity_results = similarity_results
        /\ \A p \in 1..NumArticles :
               Cardinality(ResultsAtPosition(p)) = NumArticles - 1

\* a batch of three with an id-less article in the middle has been
\* analyzed: two entries in the quality map, two results for the id-less one
C19_Witness ==
    /\ Analyzed
    /\ NumArticles = 3
    /\ articles[1].id # "" /\ articles[2].id = "" /\ articles[3].id # ""
    /\ Len(TheResult.quality_assessments) = 2
    /\ Cardinality(ResultsAtPosition(2)) = 2

\* C20: analyze_articles on an empty batch does not fail and returns zero
\* similarity results, zero clusters, an empty quality map and a summary
\* whose five figures are all zero.
C20_EmptyBatchAllZero ==
    articles = <<>> =>
        /\ pc # "failed"
        /\ Analyzed =>
               /\ TheResult.total_articles = 0
               /\ TheResult.similarity_results = <<>>
               /\ TheResult.duplicate_clusters = <<>>
               /\ TheResult.quality_assessments = <<>>
               /\ TheResult.summary.total_duplicates = 0
               /\ TheResult.summary.duplicate_clusters = 0
               /\ TheResult.summary.avg_quality_score = 0
               /\ TheResult.summary.articles_passing_quality = 0
               /\ TheResult.summary.articles_with_issues = 0

\* the empty batch has gone through the whole of analyze_articles
C20_Witness == articles = <<>> /\ Analyzed /\ Len(analysis_result) = 1

(***************************************************************************)
(* C21, C22                                                                *)
(***************************************************************************)
AllTitlesEmpty ==
    NumArticles > 0 /\ \A i \in 1..NumArticles : articles[i].title = ""

AllBodiesEmpty ==
    NumArticles > 0 /\ \A i \in 1..NumArticles : articles[i].body = ""

\* C21: calculate_content_similarity does not raise when all titles, or all
\* bodies, of a non-empty batch are empty: the title (content) similarity
\* of every result is then zero, every pair is still produced, and a batch
\* of one article produces no pair.
C21_EmptyTitlesOrBodiesGiveZeros ==
    /\ (AllTitlesEmpty \/ AllBodiesEmpty) => pc # "failed"
    /\ (Returned /\ AllTitlesEmpty) =>
           \A k \in ResultIndexes : similarity_results[k].title_similarity = 0
    /\ (Returned /\ AllBodiesEmpty) =>
           \A k \in ResultIndexes : similarity_results[k].content_similarity = 0
    /\ (Returned /\ (AllTitlesEmpty \/ AllBodiesEmpty)) =>
           2 * Len(similarity_results) = NumArticles * (NumArticles - 1)
    /\ NumArticles = 1 => (pc # "failed" /\ similarity_results = <<>>)

\* the same, of the batches in which some title holds a term
ZerosWhenBodiesEmpty == ~AllTitlesEmpty => C21_EmptyTitlesOrBodiesGiveZeros

\* C22: in every analysis result total_duplicates is the number of
\* similarity results flagged is_duplicate, duplicate_clusters the number of
\* clusters listed, articles_passing_quality the number of quality entries
\* with passes_threshold true, and articles_with_issues the number of
\* quality entries with a non-empty issue list.
C22_SummaryMatchesBody ==
    Analyzed =>
        LET body == TheResult
        IN  /\ body.summary.total_duplicates =
                   Cardinality({k \in 1..Len(body.similarity_results) :
                                    body.similarity_results[k].is_duplicate})
            /\ body.summary.duplicate_clusters = Len(body.duplicate_clusters)
            /\ body.summary.articles_passing_quality =
                   Cardinality({k \in AssessmentIndexes :
                                    body.quality_assessments[k].passes_threshold})
            /\ body.summary.articles_with_issues =
                   Cardinality({k \in AssessmentIndexes :
                                    body.quality_assessments[k].issues # <<>>})

\* a result in which each of the four counts is positive and below its
\* ceiling: some pair is flagged and some is not, some entry passes and some
\* does not, some entry has issues and some has none
C22_Witness ==
    /\ Analyzed
    /\ TheResult.summary.total_duplicates > 0
    /\ TheResult.summary.total_duplicates < Len(TheResult.similarity_results)
    /\ TheResult.summary.duplicate_clusters > 0
    /\ TheResult.summary.articles_passing_quality > 0
    /\ TheResult.summary.articles_passing_quality < Len(TheResult.quality_assessments)
    /\ TheResult.summary.articles_with_issues > 0
    /\ TheResult.summary.articles_with_issues < Len(TheResult.quality_assessments)

(***************************************************************************)
(* C23                                                                     *)
(***************************************************************************)
\* C23: an analysis run completes or fails outright: a run one of whose
\* steps failed leaves no analysis file, complete or partial; an analysis
\* file exists only for a run all of whose steps succeeded.
C23_NoFileUnlessRunSucceeded ==
    /\ pc = "failed" => analysis_file = "absent"
    /\ analysis_file # "absent" => (pc = "saved" /\ analysis_file = "complete")

\* the same, of the runs that fail before the save step
NoFileWhenAnalysisFails ==
    (pc = "failed" /\ analysis_result = <<>>) => analysis_file = "absent"

(***************************************************************************)
(* C24, C25                                                                *)
(***************************************************************************)
IsSet(name) == name \in DOMAIN environ

\* the settings object that has been constructed
TheSettings == settings[1]

\* the URL derived from each subdomain of the model
DerivedUrl(subdomain) ==
    CASE subdomain = "testcompany" -> "https://testcompany.zendesk.com/api/v2"
      [] subdomain = "acme"        -> "https://acme.zendesk.com/api/v2"

\* C24: full_base_url is the configured base URL (ZENDESK_API_BASE_URL)
\* whenever one is set and non-empty, and otherwise the URL derived from the
\* subdomain, https://<subdomain>.zendesk.com/api/v2.
C24_ConfiguredUrlElseDerived ==
    pc = "zendesk" =>
        IF IsSet("ZENDESK_API_BASE_URL") /\ environ["ZENDESK_API_BASE_URL"] # ""
        THEN TheSettings.full_base_url = environ["ZENDESK_API_BASE_URL"]
        ELSE TheSettings.full_base_url = DerivedUrl(environ["ZENDESK_SUBDOMAIN"])

\* the base URL is set to the empty text and the derived URL is returned
C24_Witness ==
    /\ pc = "zendesk"
    /\ IsSet("ZENDESK_API_BASE_URL")
    /\ environ["ZENDESK_API_BASE_URL"] = ""
    /\ TheSettings.full_base_url = "https://testcompany.zendesk.com/api/v2"

\* the value a processing parameter must have: that of its variable when
\* the variable is set, its default otherwise (floats in thousandths)
ParameterIs(field, name, from_env, default) ==
    TheSettings[field] = IF IsSet(name) THEN from_env ELSE default

\* C25: each processing parameter has the value of its environment variable
\* when the variable is set and its default otherwise: batch size 10,
\* similarity threshold 0.85, quality threshold 0.7, max retries 3, request
\* delay 1.0, minimum content length 50, maximum content age 365 days;
\* setting one variable leaves the other parameters at their defaults.
C25_EnvValueElseDefault ==
    pc = "processing" =>
        /\ ParameterIs("batch_size", "BATCH_SIZE", 20, 10)
        /\ ParameterIs("similarity_threshold", "SIMILARITY_THRESHOLD", 900, 850)
        /\ ParameterIs("quality_threshold", "QUALITY_SCORE_THRESHOLD", 800, 700)
        /\ ParameterIs("max_retries", "MAX_RETRIES", 5, 3)
        /\ ParameterIs("request_delay", "REQUEST_DELAY", 2500, 1000)
        /\ ParameterIs("min_content_length", "MIN_CONTENT_LENGTH", 100, 50)
        /\ ParameterIs("max_content_age_days", "MAX_CONTENT_AGE_DAYS", 30, 365)

\* only MAX_CONTENT_AGE_DAYS is set: 30 days, the six others at their defaults
C25_Witness ==
    /\ pc = "processing"
    /\ DOMAIN environ = {"MAX_CONTENT_AGE_DAYS"}
    /\ TheSettings.max_content_age_days = 30
    /\ TheSettings.batch_size = 10
    /\ TheSettings.similarity_threshold = 850
    /\ TheSettings.quality_threshold = 700
    /\ TheSettings.max_retries = 3
    /\ TheSettings.request_delay = 1000
    /\ TheSettings.min_content_length = 50

(***************************************************************************)
(* C26                                                                     *)
(***************************************************************************)
\* C26: every cluster has a non-empty similarity_scores list whose every
\* element is at least the similarity threshold, so that the mean of the
\* list is at least the threshold; and when the threshold is 0.85 or more no
\* cluster is given the action manual_review.
C26_ClusterScoresAtLeastThreshold ==
    Clustered =>
        \A c \in ClusterIndexes :
            LET scores == clusters[c].similarity_scores
            IN  /\ Len(scores) > 0
                /\ \A n \in 1..Len(scores) : scores[n] >= similarity_threshold
                /\ SumSeq(scores) >= similarity_threshold * Len(scores)
                /\ similarity_threshold >= 850 =>
                       clusters[c].recommended_action # "manual_review"

\* at threshold 0.85 a cluster of three has been built whose scores are not
\* all equal, and at threshold 0.7 a cluster is left to manual review
C26_Witness ==
    /\ Clustered
    /\ \E c \in ClusterIndexes :
           /\ Len(clusters[c].similarity_scores) >= 2
           /\ \E n \in 1..Len(clusters[c].similarity_scores) :
                  clusters[c].similarity_scores[n] # clusters[c].similarity_scores[1]
           /\ similarity_threshold = 850
           /\ clusters[c].recommended_action = "merge"

(***************************************************************************)
(* C27                                                                     *)
(***************************************************************************)
AutoApproved == pc \in {"reviewed", "approved", "uploading", "done"}

\* the assessments the analysis result holds for an article id
AssessmentsOf(article_id) ==
    {analysis_result[1].quality_assessments[k] :
         k \in {j \in 1..Len(analysis_result[1].quality_assessments) :
                    analysis_result[1].quality_assessments[j].article_id = article_id}}

\* the article is the primary or a duplicate member of a reported cluster
InReportedCluster(article_id) ==
    \E c \in 1..Len(analysis_result[1].duplicate_clusters) :
        LET cluster == analysis_result[1].duplicate_clusters[c]
        IN  \/ cluster.primary_article_id = article_id
            \/ \E d \in 1..Len(cluster.duplicate_article_ids) :
                   cluster.duplicate_article_ids[d] = article_id

\* C27: every article returned by auto_approve_articles passes the
\* threshold, has no issue, belongs to no duplicate cluster (as primary or as
\* duplicate) and is one of the loaded original articles; in migrate exactly
\* the returned articles are handed to the upload step, and the upload step
\* does not run when no article qualified.
C27_OnlyCleanArticlesApprovedAndUploaded ==
    /\ AutoApproved =>
           \A k \in 1..Len(approved_articles) :
               /\ AssessmentsOf(approved_articles[k].id) # {}
               /\ \A qa \in AssessmentsOf(approved_articles[k].id) :
                      qa.passes_threshold /\ qa.issues = <<>>
               /\ ~InReportedCluster(approved_articles[k].id)
               /\ \E j \in 1..Len(original_articles[1]) :
                      original_articles[1][j] = approved_articles[k]
    /\ upload # <<>> =>
           /\ pc = "uploading"
           /\ approved_articles # <<>>
           /\ upload[1].articles = approved_articles
    /\ pc = "done" => approved_articles = <<>> /\ upload = <<>>

\* the review command approved some articles of a result that also holds a
\* failing article, an article with issues, a clustered one and one missing
\* from the raw file
C27_Witness ==
    /\ pc = "reviewed"
    /\ approved_articles # <<>>
    /\ Len(approved_articles) < Len(analysis_result[1].quality_assessments)
    /\ analysis_result[1].duplicate_clusters # <<>>
    /\ \E k \in 1..Len(analysis_result[1].quality_assessments) :
           LET qa == analysis_result[1].quality_assessments[k]
           IN  qa.passes_threshold /\ qa.issues = <<>>
                   /\ InReportedCluster(qa.article_id)

(***************************************************************************)
(* C28                                                                     *)
(***************************************************************************)
Uploaded == pc = "uploaded"

\* C28: in a dry run no create request is ever sent; in both modes the call
\* returns one result per input article, in input order; an article whose
\* processing fails gets a failed result and the articles after it are
\* processed all the same.
C28_OneResultPerArticleNoDryRunRequest ==
    LET call == upload[1]
    IN  /\ call.dry_run => call.created = <<>>
        /\ Len(call.results) <= Len(call.articles)
        /\ \A i \in 1..Len(call.results) :
               /\ call.results[i].intercom_id = IntercomId(call.articles[i], i)
               /\ call.results[i].title = call.articles[i].title
               /\ call.results[i].status \in {"success", "failed"}
               /\ TransformRaises(call.articles[i]) =>
                      call.results[i].status = "failed"
        /\ Uploaded => Len(call.results) = Len(call.articles)

\* a dry run returned its results for a batch whose first article failed and
\* whose later articles succeeded
C28_Witness ==
    /\ Uploaded
    /\ upload[1].dry_run
    /\ Len(upload[1].results) = 3
    /\ upload[1].results[1].status = "failed"
    /\ upload[1].results[2].status = "success"
    /\ upload[1].results[3].status = "success"

(***************************************************************************)
(* C29                                                                     *)
(***************************************************************************)
CallReturned == pc = "returned" /\ request # <<>>

ReportedFailures == {"exception", "failed_after", "request_failed"}

AllFailed(attempts) == \A n \in 1..Len(attempts) : attempts[n] = "error"

\* C29: one call makes at most max_retries attempts, stops at the first
\* successful attempt and returns its response, reports a failure only after
\* exactly max_retries failed attempts, and never returns with neither a
\* response nor a reported failure, whatever max_retries >= 0.
C29_ResponseOrFailureAfterMaxRetries ==
    LET call == request[1]
    IN  /\ Len(call.attempts) <= call.max_retries
        /\ \A n \in 1..(Len(call.attempts) - 1) : call.attempts[n] = "error"
        /\ call.outcome \in Responses(call.client) <=>
               (call.attempts # <<>> /\ call.attempts[Len(call.attempts)] = "ok")
        /\ call.outcome \in ReportedFailures =>
               Len(call.attempts) = call.max_retries /\ AllFailed(call.attempts)
        /\ CallReturned =>
               call.outcome \in Responses(call.client) \cup ReportedFailures

\* with at least one attempt allowed every call returns a response or
\* reports its failure after max_retries failed attempts
ResponseOrFailureWhenRetriesPositive ==
    LET call == request[1]
    IN  call.max_retries > 0 =>
            /\ Len(call.attempts) <= call.max_retries
            /\ call.outcome \in ReportedFailures =>
                   Len(call.attempts) = call.max_retries /\ AllFailed(call.attempts)
            /\ CallReturned =>
                   call.outcome \in Responses(call.client) \cup ReportedFailures

(***************************************************************************)
(* C30                                                                     *)
(***************************************************************************)
Constructed == pc \in {"start", "similarity", "clustered", "analyzed"}

\* the threshold the claim expects, in thousandths: the variable's value
\* when it is set, the constructor's argument otherwise
ExpectedSimilarityThreshold ==
    IF "SIMILARITY_THRESHOLD" \in DOMAIN environ
    THEN (IF environ["SIMILARITY_THRESHOLD"] = "0.7" THEN 700 ELSE -1)
    ELSE options[1].similarity_threshold

ExpectedQualityThreshold ==
    IF "QUALITY_SCORE_THRESHOLD" \in DOMAIN environ
    THEN (IF environ["QUALITY_SCORE_THRESHOLD"] = "0.75" THEN 750 ELSE -1)
    ELSE options[1].quality_threshold

\* C30: SIMILARITY_THRESHOLD and QUALITY_SCORE_THRESHOLD, when set, override
\* the thresholds passed to the constructor; the constructor's value is the
\* one used for is_duplicate and passes_threshold, and recorded in the
\* result, only when the variable is unset.
C30_EnvironmentOverridesConstructor ==
    /\ Constructed =>
           /\ similarity_threshold = ExpectedSimilarityThreshold
           /\ config.quality_threshold = 10 * ExpectedQualityThreshold
           /\ \A k \in 1..Len(similarity_results) :
                  similarity_results[k].is_duplicate <=>
                      similarity_results[k].overall_similarity
                          >= ExpectedSimilarityThreshold
    /\ pc = "analyzed" =>
           /\ TheResult.similarity_threshold = ExpectedSimilarityThreshold
           /\ TheResult.quality_threshold = 10 * ExpectedQualityThreshold
           /\ \A k \in 1..Len(TheResult.quality_assessments) :
                  TheResult.quality_assessments[k].passes_threshold <=>
                      TheResult.quality_assessments[k].overall_quality_score
                          >= 10 * ExpectedQualityThreshold

\* both variables are set and differ from the options: a pair the option
\* would not flag is a duplicate, and an article the option would let pass
\* fails
C30_Witness ==
    /\ pc = "analyzed"
    /\ DOMAIN environ = {"SIMILARITY_THRESHOLD", "QUALITY_SCORE_THRESHOLD"}
    /\ \E k \in 1..Len(similarity_results) :
           /\ similarity_results[k].is_duplicate
           /\ similarity_results[k].overall_similarity
                  < options[1].similarity_threshold
    /\ \E k \in 1..Len(TheResult.quality_assessments) :
           /\ ~TheResult.quality_assessments[k].passes_threshold
           /\ TheResult.quality_assessments[k].overall_quality_score
                  >= 10 * options[1].quality_threshold

====
